---------------------------- MODULE Spec2Model ----------------------------
(***************************************************************************)
(* The global player statistics engine of players/services.py together     *)
(* with the views that read its snapshot row (GlobalStatisticsCache pk=1). *)
(*                                                                         *)
(* Numbers.  Python floats are modelled exactly, as rationals <<n, d>>     *)
(* with d > 0, kept in lowest terms (Norm), so that equal numbers are      *)
(* equal values.  A standard deviation s is carried as its square s*s      *)
(* (sqrt is injective on the non-negative reals, so two deviations are     *)
(* equal exactly when their squares are).  None is the empty sequence and  *)
(* a present value v is <<v>>.                                             *)
(***************************************************************************)
EXTENDS Integers, Sequences, FiniteSets, TLC

\* --------------------------------------------------------------- bounds
MaxPlayers == 2
MaxChars == 3
MaxLen == 4
MaxSyncs == 2
MaxTicks == 2
MaxWorkers == 2
PercentileGrain == 20

\* ---------------------------------------------------- program constants
STALE_SECONDS == 3600
LIGHT_BUCKET == 10
TRIUMPH_BUCKET == 5000
PLAYTIME_BUCKET == 100
MINUTES_PER_HOUR == 60

\* ------------------------------------------------------------- numbers
Null == <<>>
Some(v) == <<v>>
IsNull(o) == o = <<>>
Val(o) == o[1]

RECURSIVE GCD(_, _)
GCD(a, b) == IF b = 0 THEN a ELSE GCD(b, a % b)

Abs(x) == IF x < 0 THEN -x ELSE x

\* A rational in lowest terms with a positive denominator.
Norm(r) ==
    LET g == GCD(Abs(r[1]), r[2])
    IN  <<r[1] \div g, r[2] \div g>>

IntRat(v) == <<v, 1>>
Zero == <<0, 1>>
RatLe(a, b) == a[1] * b[2] <= b[1] * a[2]
RatLt(a, b) == a[1] * b[2] < b[1] * a[2]
RatAdd(a, b) ==
    IF a[2] = b[2] THEN <<a[1] + b[1], a[2]>>
    ELSE <<a[1] * b[2] + b[1] * a[2], a[2] * b[2]>>
RatDivInt(a, k) == Norm(<<a[1], a[2] * k>>)
\* Python's value // k for a positive value: the floor of the quotient.
RatFloorDiv(a, k) == a[1] \div (a[2] * k)

RECURSIVE SumSeq(_)
SumSeq(s) == IF s = <<>> THEN 0 ELSE Head(s) + SumSeq(Tail(s))

RECURSIVE RatSum(_)
RatSum(s) == IF s = <<>> THEN Zero ELSE RatAdd(Head(s), RatSum(Tail(s)))

\* The values of a list brought to one common denominator: the numerators
\* and that denominator.
RECURSIVE CommonDen(_)
CommonDen(s) ==
    IF s = <<>> THEN 1
    ELSE LET d == CommonDen(Tail(s))
         IN  (Head(s)[2] * d) \div GCD(Head(s)[2], d)

Numerators(s) ==
    LET d == CommonDen(s)
    IN  [i \in 1..Len(s) |-> s[i][1] * (d \div s[i][2])]

RECURSIVE SumSq(_)
SumSq(s) == IF s = <<>> THEN 0 ELSE Head(s) * Head(s) + SumSq(Tail(s))

\* n * sum(x^2) - (sum x)^2 over the numerators: n times the sum of the
\* squared deviations from the mean, in units of 1/d^2.
ScaledSS(s) ==
    LET xs == Numerators(s)
    IN  Len(s) * SumSq(xs) - SumSeq(xs) * SumSeq(xs)

\* Python's sorted() on numbers: a stable insertion sort, ascending.
RECURSIVE InsertRat(_, _)
InsertRat(x, s) ==
    IF s = <<>> THEN <<x>>
    ELSE IF RatLe(Head(s), x) THEN <<Head(s)>> \o InsertRat(x, Tail(s))
    ELSE <<x>> \o s

RECURSIVE sorted(_)
sorted(values) ==
    IF values = <<>> THEN <<>>
    ELSE InsertRat(values[Len(values)],
                   sorted(SubSeq(values, 1, Len(values) - 1)))

\* ------------------------------------------------- bucket labels
\* f"{bucket_start}": the decimal digits of a non-negative integer.
RECURSIVE FormatInt(_)
FormatInt(n) == IF n < 10 THEN <<n>> ELSE Append(FormatInt(n \div 10), n % 10)

\* int(label): the integer a digit string denotes.
RECURSIVE ParseInt(_)
ParseInt(ds) ==
    IF Len(ds) = 1 THEN ds[1]
    ELSE 10 * ParseInt(SubSeq(ds, 1, Len(ds) - 1)) + ds[Len(ds)]


\* ------------------------------------------------------------ state
VARIABLES
    players,          \* DestinyPlayer rows, by player id
    characters,       \* DestinyCharacter rows, in row order
    cache,            \* the GlobalStatisticsCache row pk=1, or Null
    now,              \* timezone.now(), in seconds
    ticks,            \* how often the clock has advanced
    syncs,            \* how many rows sync_player_from_api has written
    SCIPY_AVAILABLE,  \* whether the scipy import succeeded
    req,              \* the request each worker is serving
    calc,             \* a call of one of the pure calculators and its result
    result            \* the last query answered and what it returned

vars == <<players, characters, cache, now, ticks, syncs, SCIPY_AVAILABLE,
          req, calc, result>>

\* ------------------------------------------------------- calculators
\* buckets[bucket_label] = 1: a bucket that forgets what it has counted.
BucketIncrementOverwriting(buckets, label) ==
    IF \E i \in 1..Len(buckets) : buckets[i].label = label
    THEN buckets
    ELSE Append(buckets, [label |-> label, count |-> 1])

\* buckets[bucket_label] = buckets.get(bucket_label, 0) + 1 on a dict kept
\* in insertion order.
BucketIncrement(buckets, label) ==
    IF \E i \in 1..Len(buckets) : buckets[i].label = label
    THEN [i \in 1..Len(buckets) |->
            IF buckets[i].label = label
            THEN [buckets[i] EXCEPT !.count = @ + 1]
            ELSE buckets[i]]
    ELSE Append(buckets, [label |-> label, count |-> 1])

RECURSIVE BucketLoop(_, _, _)
BucketLoop(values, bucket_size, buckets) ==
    IF values = <<>> THEN buckets
    ELSE LET bucket_start == RatFloorDiv(Head(values), bucket_size) * bucket_size
         IN  BucketLoop(Tail(values), bucket_size,
                        BucketIncrement(buckets, FormatInt(bucket_start)))

BucketKeyLe(a, b) == ParseInt(a.label) <= ParseInt(b.label)

RECURSIVE InsertBucket(_, _)
InsertBucket(x, s) ==
    IF s = <<>> THEN <<x>>
    ELSE IF BucketKeyLe(Head(s), x) THEN <<Head(s)>> \o InsertBucket(x, Tail(s))
    ELSE <<x>> \o s

RECURSIVE SortBuckets(_)
SortBuckets(s) ==
    IF s = <<>> THEN <<>>
    ELSE InsertBucket(s[Len(s)], SortBuckets(SubSeq(s, 1, Len(s) - 1)))

\* services.calculate_distribution_buckets: the dict as the sequence of its
\* items, in the dict's order.
calculate_distribution_buckets(values, bucket_size) ==
    IF values = <<>> THEN <<>>
    ELSE SortBuckets(BucketLoop(values, bucket_size, <<>>))

\* statistics.median of a sorted list.
median(sorted_values) ==
    LET n == Len(sorted_values)
    IN  IF n % 2 = 1 THEN sorted_values[(n \div 2) + 1]
        ELSE RatDivInt(RatAdd(sorted_values[n \div 2],
                              sorted_values[(n \div 2) + 1]), 2)

\* float(scipy_stats.skew(values)) and float(scipy_stats.kurtosis(values)):
\* only whether a number was computed is carried, not the number.
Computed == <<"computed">>

EmptyExtended ==
    [median |-> Null, q1 |-> Null, q3 |-> Null, min |-> Null, max |-> Null,
     skewness |-> Null, kurtosis |-> Null]

Q1IndexRoundedUp(n) == (n + 3) \div 4

Q1Index(n) == n \div 4
Q3Index(n) == (3 * n) \div 4

\* The same calculator computing from a single value as well.
calculate_extended_statistics_from_one(values) ==
    IF Len(values) < 1 THEN EmptyExtended
    ELSE LET sorted_values == sorted(values)
             n == Len(sorted_values)
         IN  [median |-> Some(median(sorted_values)),
              q1 |-> Some(sorted_values[Q1Index(n) + 1]),
              q3 |-> Some(sorted_values[Q3Index(n) + 1]),
              min |-> Some(sorted_values[1]),
              max |-> Some(sorted_values[n]),
              skewness |-> Null,
              kurtosis |-> Null]

\* services.calculate_extended_statistics (list indices are 0-based there).
calculate_extended_statistics(values) ==
    IF Len(values) < 2 THEN EmptyExtended
    ELSE LET sorted_values == sorted(values)
             n == Len(sorted_values)
             q1_idx == Q1Index(n)
             q3_idx == Q3Index(n)
             moments == SCIPY_AVAILABLE /\ Len(values) >= 3
         IN  [median |-> Some(median(sorted_values)),
              q1 |-> Some(IF q1_idx < n THEN sorted_values[q1_idx + 1]
                          ELSE sorted_values[1]),
              q3 |-> Some(IF q3_idx < n THEN sorted_values[q3_idx + 1]
                          ELSE sorted_values[n]),
              min |-> Some(sorted_values[1]),
              max |-> Some(sorted_values[n]),
              skewness |-> IF moments THEN Computed ELSE Null,
              kurtosis |-> IF moments THEN Computed ELSE Null]

\* sum(values) / len(values)
Mean(values) == Norm(<<RatSum(values)[1], RatSum(values)[2] * Len(values)>>)

\* The square of statistics.stdev(values): the sum of squared deviations
\* over n - 1.
StdevSq(values) ==
    LET n == Len(values)
        d == CommonDen(values)
    IN  Norm(<<ScaledSS(values), d * d * n * (n - 1)>>)

\* The square of Django's StdDev(field) aggregate, whose sample argument
\* defaults to False (STDDEV_POP): the sum of squared deviations over n.
StdDevSq(values) ==
    LET n == Len(values)
        d == CommonDen(values)
    IN  Norm(<<ScaledSS(values), d * d * n * n>>)

\* QuerySet.aggregate(avg=Avg(f), stddev=StdDev(f)): both None on no rows.
Aggregate(values) ==
    IF values = <<>> THEN [avg |-> Null, stddev |-> Null]
    ELSE [avg |-> Some(Mean(values)), stddev |-> Some(StdDevSq(values))]

\* Python's `x or 0` on an aggregate: None and 0.0 both give 0.
OrZero(o) == IF IsNull(o) THEN Zero ELSE Val(o)


\* ------------------------------------------------------- record store
PlayerIds == 1..MaxPlayers
CharacterIds == 1..MaxChars
ClassTypes == {0, 1, 2}

NoPlayer == [exists |-> FALSE, active_triumph_score |-> 0]
PlayerRow(score) == [exists |-> TRUE, active_triumph_score |-> score]

CharacterRow(player, character_id, class_type, light_level, minutes) ==
    [player |-> player, character_id |-> character_id,
     class_type |-> class_type, light_level |-> light_level,
     minutes_played_total |-> minutes]

\* The rows of a sequence that pass a test, as a list of one column.
RECURSIVE LightLevelsOf(_)
LightLevelsOf(rows) ==
    IF rows = <<>> THEN <<>>
    ELSE <<IntRat(Head(rows).light_level)>> \o LightLevelsOf(Tail(rows))

\* A light level that counts only when its owner has a triumph score.
HasLightAndScore(c) ==
    c.light_level > 0 /\ players[c.player].active_triumph_score > 0

HasLight(c) == c.light_level > 0

\* DestinyCharacter.objects.filter(light_level__gt=0)
\*     .values_list('light_level', flat=True)
LightValues(chars) == LightLevelsOf(SelectSeq(chars, HasLight))

\* DestinyCharacter.objects.filter(class_type=class_type, light_level__gt=0)
\*     .values_list('light_level', flat=True)
ClassLightValues(chars, class_type) ==
    LET InClass(c) == c.class_type = class_type /\ c.light_level > 0
    IN  LightLevelsOf(SelectSeq(chars, InClass))

\* DestinyPlayer.objects.filter(active_triumph_score__gt=0)
\*     .values_list('active_triumph_score', flat=True), in id order.
RECURSIVE TriumphFrom(_, _)
TriumphFrom(pls, i) ==
    IF i > MaxPlayers THEN <<>>
    ELSE (IF pls[i].exists /\ pls[i].active_triumph_score > 0
          THEN <<IntRat(pls[i].active_triumph_score)>> ELSE <<>>)
         \o TriumphFrom(pls, i + 1)

TriumphValues(pls) == TriumphFrom(pls, 1)

RECURSIVE MinutesOf(_, _)
MinutesOf(chars, player) ==
    IF chars = <<>> THEN 0
    ELSE (IF Head(chars).player = player
          THEN Head(chars).minutes_played_total ELSE 0)
         + MinutesOf(Tail(chars), player)

HasCharacters(chars, player) ==
    \E i \in 1..Len(chars) : chars[i].player = player

\* DestinyCharacter.objects.values('player')
\*     .annotate(total_minutes=Sum('minutes_played_total'))
\*     .filter(total_minutes__gt=0), then total_minutes / 60.0 of each group.
RECURSIVE PlaytimeFrom(_, _)
PlaytimeFrom(chars, i) ==
    IF i > MaxPlayers THEN <<>>
    ELSE (IF HasCharacters(chars, i) /\ MinutesOf(chars, i) > 0
          THEN <<Norm(<<MinutesOf(chars, i), MINUTES_PER_HOUR>>)>> ELSE <<>>)
         \o PlaytimeFrom(chars, i + 1)

PlaytimeHours(chars) == PlaytimeFrom(chars, 1)

\* DestinyCharacter.objects.values('class_type').annotate(count=Count('id'))
\* folded into class_dist = {0: 0, 1: 0, 2: 0}.
ClassDist(chars) ==
    [ct \in ClassTypes |->
        Cardinality({i \in 1..Len(chars) : chars[i].class_type = ct})]

CountPlayers(pls) == Cardinality({i \in PlayerIds : pls[i].exists})

\* ------------------------------------------------ class statistics
class_names == [ct \in ClassTypes |->
                  CASE ct = 0 -> "titan" [] ct = 1 -> "hunter" [] ct = 2 -> "warlock"]

ClassEntry(light_values) ==
    IF light_values # <<>>
    THEN LET extended == calculate_extended_statistics(light_values)
         IN  [count |-> Len(light_values),
              mean |-> Mean(light_values),
              std |-> IF Len(light_values) > 1 THEN StdevSq(light_values) ELSE Zero,
              median |-> extended.median, q1 |-> extended.q1, q3 |-> extended.q3,
              min |-> extended.min, max |-> extended.max,
              skewness |-> extended.skewness, kurtosis |-> extended.kurtosis]
    ELSE [count |-> 0, mean |-> Zero, std |-> Zero,
          median |-> Null, q1 |-> Null, q3 |-> Null, min |-> Null, max |-> Null,
          skewness |-> Null, kurtosis |-> Null]

\* A dict with an entry only for the classes that have a light level.
calculate_class_statistics_omitting_empty(chars) ==
    [name \in {class_names[ct] : ct \in {c \in ClassTypes : ClassLightValues(chars, c) # <<>>}} |->
        LET ct == CHOOSE c \in ClassTypes : class_names[c] = name
        IN  ClassEntry(ClassLightValues(chars, ct))]

\* services.calculate_class_statistics: a dict keyed by class name.
calculate_class_statistics(chars) ==
    [name \in {class_names[ct] : ct \in ClassTypes} |->
        LET ct == CHOOSE c \in ClassTypes : class_names[c] = name
        IN  ClassEntry(ClassLightValues(chars, ct))]


\* ------------------------------------------ refresh_global_statistics
\* Lines 317-326: the light level aggregate, histogram and extended
\* statistics, over all characters with a light level.
ReadLight(chars) ==
    LET light_values == LightValues(chars)
    IN  [stats |-> Aggregate(light_values),
         distribution |-> calculate_distribution_buckets(light_values, LIGHT_BUCKET),
         extended |-> calculate_extended_statistics(light_values)]

\* Lines 329-338: the same for the players' triumph scores.
ReadTriumph(pls) ==
    LET triumph_values == TriumphValues(pls)
    IN  [stats |-> Aggregate(triumph_values),
         distribution |-> calculate_distribution_buckets(triumph_values, TRIUMPH_BUCKET),
         extended |-> calculate_extended_statistics(triumph_values)]

\* Lines 341-348: the class counts and the class-wise statistics.
ReadClass(chars) ==
    [class_dist |-> ClassDist(chars),
     class_statistics |-> calculate_class_statistics(chars)]

\* Lines 351-370: play time per player, in hours.
ReadPlaytime(chars) ==
    LET playtime_hours == PlaytimeHours(chars)
    IN  IF playtime_hours # <<>>
        THEN [stats |-> [avg |-> Mean(playtime_hours),
                         stddev |-> IF Len(playtime_hours) > 1
                                    THEN StdevSq(playtime_hours) ELSE Zero],
              distribution |-> calculate_distribution_buckets(playtime_hours, PLAYTIME_BUCKET),
              extended |-> calculate_extended_statistics(playtime_hours)]
        ELSE [stats |-> [avg |-> Zero, stddev |-> Zero],
              distribution |-> <<>>,
              extended |-> EmptyExtended]

\* Lines 375-419: the defaults of update_or_create.
Defaults(light, triumph, class, playtime, pls, chars) ==
    [avg_light_level |-> OrZero(light.stats.avg),
     stddev_light_level |-> OrZero(light.stats.stddev),
     median_light_level |-> light.extended.median,
     q1_light_level |-> light.extended.q1,
     q3_light_level |-> light.extended.q3,
     min_light_level |-> light.extended.min,
     max_light_level |-> light.extended.max,
     skewness_light_level |-> light.extended.skewness,
     kurtosis_light_level |-> light.extended.kurtosis,
     light_level_distribution |-> light.distribution,
     avg_triumph_score |-> OrZero(triumph.stats.avg),
     stddev_triumph_score |-> OrZero(triumph.stats.stddev),
     median_triumph_score |-> triumph.extended.median,
     q1_triumph_score |-> triumph.extended.q1,
     q3_triumph_score |-> triumph.extended.q3,
     min_triumph_score |-> triumph.extended.min,
     max_triumph_score |-> triumph.extended.max,
     skewness_triumph_score |-> triumph.extended.skewness,
     kurtosis_triumph_score |-> triumph.extended.kurtosis,
     triumph_score_distribution |-> triumph.distribution,
     titan_count |-> class.class_dist[0],
     hunter_count |-> class.class_dist[1],
     warlock_count |-> class.class_dist[2],
     class_statistics |-> class.class_statistics,
     avg_play_time_hours |-> playtime.stats.avg,
     stddev_play_time_hours |-> playtime.stats.stddev,
     median_play_time_hours |-> playtime.extended.median,
     q1_play_time_hours |-> playtime.extended.q1,
     q3_play_time_hours |-> playtime.extended.q3,
     skewness_play_time_hours |-> playtime.extended.skewness,
     kurtosis_play_time_hours |-> playtime.extended.kurtosis,
     play_time_distribution |-> playtime.distribution,
     total_players |-> CountPlayers(pls),
     total_characters |-> Len(chars)]

\* The power cap of a row that no refresh has set yet; the value
\* get_cached_power_cap falls back to.
DEFAULT_POWER_CAP == 2000

\* update_or_create that leaves the population counts of an existing row.
WrittenRowKeepingCounts(old, defaults, t) ==
    [stats |-> IF IsNull(old) THEN defaults
               ELSE [defaults EXCEPT !.total_players = Val(old).stats.total_players,
                                     !.total_characters = Val(old).stats.total_characters],
     last_updated |-> t,
     current_power_cap |-> IF IsNull(old) THEN DEFAULT_POWER_CAP
                           ELSE Val(old).current_power_cap,
     power_cap_season_hash |-> IF IsNull(old) THEN "" ELSE Val(old).power_cap_season_hash]

\* get_or_create in its place: an existing row is left as it is.
WrittenRowFirstWins(old, defaults, t) ==
    IF IsNull(old)
    THEN [stats |-> defaults, last_updated |-> t,
          current_power_cap |-> DEFAULT_POWER_CAP, power_cap_season_hash |-> ""]
    ELSE Val(old)

\* The row GlobalStatisticsCache.objects.update_or_create(pk=1, defaults)
\* leaves: every field of defaults replaced (grouped here as .stats),
\* last_updated set by auto_now, the power cap fields kept or defaulted.
WrittenRow(old, defaults, t) ==
    [stats |-> defaults,
     last_updated |-> t,
     current_power_cap |-> IF IsNull(old) THEN DEFAULT_POWER_CAP
                           ELSE Val(old).current_power_cap,
     power_cap_season_hash |-> IF IsNull(old) THEN "" ELSE Val(old).power_cap_season_hash]

IsStaleFromAnHour(row, t) == (t - row.last_updated) >= STALE_SECONDS

\* (timezone.now() - cache.last_updated).total_seconds() > 3600
IsStale(row, t) == (t - row.last_updated) > STALE_SECONDS


\* ------------------------------------------------------------ requests
Workers == 1..MaxWorkers

\* The operations that read the snapshot row, and the forced refresh of
\* views.refresh_stats and of collect_players --refresh-stats.
StaleCheckKinds == {"descriptive", "statistics_page"}
MissingOnlyKinds == {"distribution", "class_comparison", "position", "badges", "radar"}
ReaderKinds == StaleCheckKinds \cup MissingOnlyKinds
Kinds == ReaderKinds \cup {"refresh_stats"}

IdleRequest ==
    [kind |-> "none", pc |-> "idle",
     light |-> Null, triumph |-> Null, class |-> Null, playtime |-> Null,
     prev |-> Null, obj |-> Null, power_cap |-> Null,
     called_refresh |-> FALSE, read_at |-> 0, cache |-> Null]

\* What the Bungie API answers to _update_power_cap: nothing, a cap from
\* the settings endpoint, or a cap and a season hash from the manifest.
PowerCaps == {2010}
PowerCapAnswers ==
    {[via |-> "none", power_cap |-> 0, season_hash |-> ""]}
    \cup {[via |-> "settings", power_cap |-> c, season_hash |-> ""] : c \in PowerCaps}
    \cup {[via |-> "manifest", power_cap |-> c, season_hash |-> "season"] : c \in PowerCaps}

\* A request arrives at an idle worker.
StartRequest(w, kind) ==
    /\ req[w].pc = "idle"
    /\ req' = [req EXCEPT ![w] =
                 [IdleRequest EXCEPT !.kind = kind,
                                     !.pc = IF kind = "refresh_stats"
                                            THEN "read_light" ELSE "get",
                                     !.called_refresh = (kind = "refresh_stats")]]
    /\ UNCHANGED <<players, characters, cache, now, ticks, syncs,
                   SCIPY_AVAILABLE, calc, result>>

\* Whether a reader of this kind, finding this row, calls
\* refresh_global_statistics: always on DoesNotExist, and for the two
\* operations that compare last_updated with the clock, on a stale row.
NeedsRefresh(kind, row, t) ==
    \/ IsNull(row)
    \/ kind \in StaleCheckKinds /\ IsStale(Val(row), t)

\* GlobalStatisticsCache.objects.get(pk=1) and the branch taken on it;
\* read_at is the clock at the moment the row is read and kept.
GetCache(w) ==
    /\ req[w].pc = "get"
    /\ IF NeedsRefresh(req[w].kind, cache, now)
       THEN req' = [req EXCEPT ![w].pc = "read_light",
                               ![w].called_refresh = TRUE]
       ELSE req' = [req EXCEPT ![w].pc = "respond", ![w].cache = cache,
                               ![w].read_at = now]
    /\ UNCHANGED <<players, characters, cache, now, ticks, syncs,
                   SCIPY_AVAILABLE, calc, result>>

RefreshReadLight(w) ==
    /\ req[w].pc = "read_light"
    /\ req' = [req EXCEPT ![w].pc = "read_triumph",
                          ![w].light = Some(ReadLight(characters))]
    /\ UNCHANGED <<players, characters, cache, now, ticks, syncs,
                   SCIPY_AVAILABLE, calc, result>>

RefreshReadTriumph(w) ==
    /\ req[w].pc = "read_triumph"
    /\ req' = [req EXCEPT ![w].pc = "read_class",
                          ![w].triumph = Some(ReadTriumph(players))]
    /\ UNCHANGED <<players, characters, cache, now, ticks, syncs,
                   SCIPY_AVAILABLE, calc, result>>

RefreshReadClass(w) ==
    /\ req[w].pc = "read_class"
    /\ req' = [req EXCEPT ![w].pc = "read_playtime",
                          ![w].class = Some(ReadClass(characters))]
    /\ UNCHANGED <<players, characters, cache, now, ticks, syncs,
                   SCIPY_AVAILABLE, calc, result>>

RefreshReadPlaytime(w) ==
    /\ req[w].pc = "read_playtime"
    /\ req' = [req EXCEPT ![w].pc = "write",
                          ![w].playtime = Some(ReadPlaytime(characters))]
    /\ UNCHANGED <<players, characters, cache, now, ticks, syncs,
                   SCIPY_AVAILABLE, calc, result>>

\* Lines 373-420: the two counts and update_or_create, one transaction.
\* prev is the row update_or_create loaded before it overwrote it.
RefreshWrite(w) ==
    /\ req[w].pc = "write"
    /\ LET defaults == Defaults(Val(req[w].light), Val(req[w].triumph),
                                Val(req[w].class), Val(req[w].playtime),
                                players, characters)
           row == WrittenRow(cache, defaults, now)
       IN  /\ cache' = Some(row)
           /\ req' = [req EXCEPT ![w].pc = "power_cap",
                                 ![w].light = Null, ![w].triumph = Null,
                                 ![w].class = Null, ![w].playtime = Null,
                                 ![w].prev = cache,
                                 ![w].obj = Some(row)]
    /\ UNCHANGED <<players, characters, now, ticks, syncs,
                   SCIPY_AVAILABLE, calc, result>>

\* What the caller of refresh_global_statistics keeps of the object it
\* returns: views.refresh_stats discards it, every reader uses it.
Returned(kind, obj) == IF kind = "refresh_stats" THEN Null ELSE obj

\* _update_power_cap, lines 433-447: the two API calls.  With no cap from
\* either, nothing is saved and refresh returns the object it wrote.
FetchPowerCap(w) ==
    /\ req[w].pc = "power_cap"
    /\ \E answer \in PowerCapAnswers :
         IF answer.via = "none"
         THEN req' = [req EXCEPT ![w].pc = "respond",
                                 ![w].cache = Returned(req[w].kind, req[w].obj),
                                 ![w].obj = Null, ![w].prev = Null]
         ELSE req' = [req EXCEPT ![w].pc = "save_power_cap",
                                 ![w].power_cap = Some(answer)]
    /\ UNCHANGED <<players, characters, cache, now, ticks, syncs,
                   SCIPY_AVAILABLE, calc, result>>

\* The object of refresh with the fetched cap set on it.
WithPowerCap(row, answer) ==
    [row EXCEPT !.current_power_cap = answer.power_cap,
                !.power_cap_season_hash =
                    IF answer.via = "manifest" THEN answer.season_hash ELSE @]

\* cache.save(update_fields=[...]), lines 448-456: an UPDATE of the power
\* cap columns alone of row pk=1.
SavePowerCap(w) ==
    /\ req[w].pc = "save_power_cap"
    /\ LET answer == Val(req[w].power_cap)
       IN  /\ cache' = Some(WithPowerCap(Val(cache), answer))
           /\ req' = [req EXCEPT ![w].pc = "respond",
                                 ![w].cache = Returned(req[w].kind,
                                                Some(WithPowerCap(Val(req[w].obj), answer))),
                                 ![w].obj = Null, ![w].prev = Null,
                                 ![w].power_cap = Null]
    /\ UNCHANGED <<players, characters, now, ticks, syncs,
                   SCIPY_AVAILABLE, calc, result>>

\* The response is built from the object in hand and the worker is free.
Respond(w) ==
    /\ req[w].pc = "respond"
    /\ req' = [req EXCEPT ![w] = IdleRequest]
    /\ UNCHANGED <<players, characters, cache, now, ticks, syncs,
                   SCIPY_AVAILABLE, calc, result>>

\* StatisticsClassComparisonAPIView.get: class_stats = cache.class_statistics or {}
ClassComparisonStats(row) ==
    IF DOMAIN row.stats.class_statistics = {} THEN <<>>
    ELSE row.stats.class_statistics

\* --------------------------------------------------------- environment
TickSteps == {1, STALE_SECONDS}

Tick(d) ==
    /\ ticks < MaxTicks
    /\ now' = now + d
    /\ ticks' = ticks + 1
    /\ UNCHANGED <<players, characters, cache, syncs, SCIPY_AVAILABLE, req, calc, result>>

\* sync_player_from_api, lines 40-51: DestinyPlayer update_or_create.
SyncPlayer(p, score) ==
    /\ syncs < MaxSyncs
    /\ players[p] # PlayerRow(score)
    /\ players' = [players EXCEPT ![p] = PlayerRow(score)]
    /\ syncs' = syncs + 1
    /\ UNCHANGED <<characters, cache, now, ticks, SCIPY_AVAILABLE, req, calc, result>>

\* sync_characters, lines 86-99: DestinyCharacter update_or_create on
\* (player, character_id); a new character takes the next id.
SyncCharacter(p, cid, class_type, light_level, minutes) ==
    /\ syncs < MaxSyncs
    /\ players[p].exists
    /\ LET row == CharacterRow(p, cid, class_type, light_level, minutes)
       IN  \/ /\ cid <= Len(characters)
              /\ characters[cid].player = p
              /\ characters[cid] # row
              /\ characters' = [characters EXCEPT ![cid] = row]
           \/ /\ cid = Len(characters) + 1
              /\ cid <= MaxChars
              /\ characters' = Append(characters, row)
    /\ syncs' = syncs + 1
    /\ UNCHANGED <<players, cache, now, ticks, SCIPY_AVAILABLE, req, calc, result>>


\* ------------------------------------------------- pure calculators
NoCalc ==
    [values |-> <<>>, bucket_size |-> LIGHT_BUCKET, done |-> TRUE,
     extended |-> EmptyExtended, buckets |-> <<>>]

\* Valid (positive) metric values: light levels and a play time in hours
\* that is no integer.
CalcValues == {IntRat(10), IntRat(20), IntRat(30), IntRat(40), <<201, 2>>}
BucketSizes == {LIGHT_BUCKET, TRIUMPH_BUCKET, PLAYTIME_BUCKET}

RECURSIVE SeqsUpTo(_, _)
SeqsUpTo(S, n) ==
    IF n = 0 THEN {<<>>}
    ELSE LET shorter == SeqsUpTo(S, n - 1)
         IN  shorter \cup {Append(q, x) : q \in shorter, x \in S}

\* calculate_extended_statistics(values) and
\* calculate_distribution_buckets(values, bucket_size) applied to a list.
ApplyCalculators ==
    /\ ~calc.done
    /\ calc' = [calc EXCEPT !.done = TRUE,
                  !.extended = calculate_extended_statistics(calc.values),
                  !.buckets = calculate_distribution_buckets(calc.values, calc.bucket_size)]
    /\ UNCHANGED <<players, characters, cache, now, ticks, syncs,
                   SCIPY_AVAILABLE, req, result>>

\* ------------------------------------------------------ specifications
EmptyStore ==
    /\ players = [p \in PlayerIds |-> NoPlayer]
    /\ characters = <<>>

\* No query has been answered yet.
NoResult == [op |-> "none"]

Quiet ==
    /\ result = NoResult
    /\ cache = Null
    /\ now = 0
    /\ ticks = 0
    /\ syncs = 0
    /\ SCIPY_AVAILABLE \in BOOLEAN
    /\ req = [w \in Workers |-> IdleRequest]

\* A fresh database and idle workers.
Init ==
    /\ EmptyStore
    /\ Quiet
    /\ calc = NoCalc

Refreshing(w) ==
    \/ RefreshReadLight(w)
    \/ RefreshReadTriumph(w)
    \/ RefreshReadClass(w)
    \/ RefreshReadPlaytime(w)
    \/ RefreshWrite(w)
    \/ FetchPowerCap(w)
    \/ SavePowerCap(w)

\* The scores and characters the upstream API reports in the runs with
\* requests in flight: few, so that the interleavings stay enumerable.
SyncScores == {5000}
SyncLights == {10}
SyncMinutes == {6000}
SyncClasses == {0}

SyncPlayers ==
    \E p \in PlayerIds, score \in SyncScores : SyncPlayer(p, score)

SyncCharacters ==
    \E p \in PlayerIds, cid \in CharacterIds, ct \in SyncClasses,
       l \in SyncLights, m \in SyncMinutes : SyncCharacter(p, cid, ct, l, m)

\* One worker, the clock and players arriving from upstream: every
\* operation that reads the snapshot, one request at a time.
Next ==
    \/ \E kind \in Kinds : StartRequest(1, kind)
    \/ GetCache(1)
    \/ Refreshing(1)
    \/ Respond(1)
    \/ \E d \in TickSteps : Tick(d)
    \/ SyncPlayers

Spec == Init /\ [][Next]_vars


\* Requests in flight on every worker at once.
RaceKinds == {"distribution", "refresh_stats"}

Serving(w) ==
    \/ \E kind \in RaceKinds : StartRequest(w, kind)
    \/ GetCache(w)
    \/ Refreshing(w)
    \/ Respond(w)

\* One worker forcing refreshes and the others serving readers, with the
\* upstream sync writing players and characters at any moment.
ForcedRefresh == StartRequest(1, "refresh_stats")

ReaderArrives == \E w \in Workers \ {1} : StartRequest(w, "distribution")

NextRace ==
    \/ ForcedRefresh
    \/ ReaderArrives
    \/ \E w \in Workers : GetCache(w) \/ Refreshing(w) \/ Respond(w)
    \/ SyncPlayers
    \/ SyncCharacters

SpecRace == Init /\ [][NextRace]_vars

\* The same workers with the record store written only between requests:
\* every request in flight computes from one and the same store.
AllIdle == \A w \in Workers : req[w].pc = "idle"

NextSettled ==
    \/ \E w \in Workers : Serving(w)
    \/ AllIdle /\ SyncPlayers
    \/ AllIdle /\ SyncCharacters

SpecSettled == Init /\ [][NextSettled]_vars

\* A record store already populated by the collector: every player with a
\* triumph score, none or a low or a high one, and up to MaxChars
\* characters, each of one of a few kinds and owned by any player.
StoreScores == {0, 5000, 12000}

CharacterProfiles ==
    {[class_type |-> 0, light_level |-> 100, minutes |-> 6000],
     [class_type |-> 0, light_level |-> 95, minutes |-> 0],
     [class_type |-> 1, light_level |-> 10, minutes |-> 6030],
     [class_type |-> 2, light_level |-> 0, minutes |-> 60]}

RECURSIVE CharacterTables(_)
CharacterTables(n) ==
    IF n = 0 THEN {<<>>}
    ELSE LET shorter == CharacterTables(n - 1)
         IN  shorter \cup
             {Append(t, CharacterRow(p, Len(t) + 1, c.class_type,
                                     c.light_level, c.minutes)) :
                t \in {x \in shorter : Len(x) = n - 1},
                p \in PlayerIds, c \in CharacterProfiles}

InitStats ==
    /\ players \in [PlayerIds -> {PlayerRow(score) : score \in StoreScores}]
    /\ characters \in CharacterTables(MaxChars)
    /\ Quiet
    /\ calc = NoCalc

\* The class-comparison endpoint over that store, one request at a time:
\* the first finds no row and refreshes, the later ones read the row.
NextStats ==
    \/ StartRequest(1, "class_comparison")
    \/ GetCache(1)
    \/ Refreshing(1)
    \/ Respond(1)

SpecStats == InitStats /\ [][NextStats]_vars

\* The two calculators applied to a list of valid values.
InitCalc ==
    /\ EmptyStore
    /\ Quiet
    /\ calc \in {[NoCalc EXCEPT !.values = values, !.bucket_size = bucket_size,
                                !.done = FALSE] :
                    values \in SeqsUpTo(CalcValues, MaxLen),
                    bucket_size \in BucketSizes}

SpecCalc == InitCalc /\ [][ApplyCalculators]_vars

\* ---------------------------------------------------------- the claims
Age(row, t) == t - row.last_updated

\* C1 (as claimed): every operation that reads the snapshot row and keeps
\* it without refreshing holds a row that was at most one hour old when it
\* was read.
C1_NoReaderKeepsAStaleSnapshot ==
    \A w \in Workers :
        (req[w].pc = "respond" /\ ~req[w].called_refresh)
            => Age(Val(req[w].cache), req[w].read_at) <= STALE_SECONDS

AfterRefresh(w) == Some(WithPowerCap(Val(req[w].obj), Val(req[w].power_cap)))

\* C3 (as claimed): while a refresh that replaced an existing row is between
\* its write and its return, the row a reader finds, when it is the one this
\* refresh wrote, is either the complete row from before the refresh or the
\* complete row the refresh ends with, power cap included.
C3_ReaderSeesBeforeOrAfter ==
    \A w \in Workers :
        (req[w].pc = "save_power_cap" /\ req[w].prev # Null
              /\ cache = req[w].obj)
            => cache \in {req[w].prev, AfterRefresh(w)}

\* C3 (amended): every write to the snapshot row either replaces all the
\* statistics and counts together by the result of one refresh, leaving the
\* power cap columns as they were, or changes the power cap columns alone;
\* the row is never removed.
C3_StatisticsReplacedInOneWrite ==
    [][cache' # cache =>
         /\ cache' # Null
         /\ \/ \E w \in Workers :
                  /\ req[w].pc = "write"
                  /\ Val(cache').stats =
                        Defaults(Val(req[w].light), Val(req[w].triumph),
                                 Val(req[w].class), Val(req[w].playtime),
                                 players, characters)
                  /\ cache # Null =>
                        /\ Val(cache').current_power_cap = Val(cache).current_power_cap
                        /\ Val(cache').power_cap_season_hash
                              = Val(cache).power_cap_season_hash
            \/ /\ cache # Null
               /\ Val(cache').stats = Val(cache).stats
               /\ Val(cache').last_updated = Val(cache).last_updated]_vars

\* A row with the statistics of the refresh in flight and the power cap
\* from before it is in the database.
C3_Witness ==
    \E w \in Workers :
        /\ req[w].pc = "save_power_cap"
        /\ req[w].prev # Null
        /\ cache = req[w].obj
        /\ Val(cache).stats # Val(req[w].prev).stats
        /\ Val(cache).current_power_cap # Val(req[w].power_cap).power_cap

\* The statistics one refresh computes from the record store as it is.
SingleRefresh ==
    Defaults(ReadLight(characters), ReadTriumph(players),
             ReadClass(characters), ReadPlaytime(characters),
             players, characters)

HasWritten(w) ==
    \/ req[w].pc \in {"power_cap", "save_power_cap"}
    \/ req[w].pc = "respond" /\ req[w].called_refresh

\* C4: with the record store unchanged while requests are in flight, once
\* any refresh has written, the one row pk=1 exists and carries the
\* statistics a single refresh of that store writes, whatever the
\* interleaving of the refreshes; and no step removes the row.
C4_ConcurrentRefreshesAgree ==
    [][/\ cache # Null => cache' # Null
       /\ \A w \in Workers :
             HasWritten(w) => (cache # Null /\ Val(cache).stats = SingleRefresh)]_vars

\* Two refreshes of a store with records in it ran at once and both have
\* written.
C4_Witness ==
    \E v, w \in Workers :
        /\ v # w
        /\ req[v].pc = "respond" /\ req[v].called_refresh
        /\ req[w].pc = "respond" /\ req[w].called_refresh
        /\ CountPlayers(players) > 0

\* ---- the populations of the three metrics, read off the record store
\* The characters with a power level, the players with a triumph score and
\* the players with play time.
LightRecords == {i \in 1..Len(characters) : characters[i].light_level > 0}

TriumphRecords ==
    {p \in DOMAIN players : players[p].exists /\ players[p].active_triumph_score > 0}

RECURSIVE SetSum(_, _)
SetSum(f, S) ==
    IF S = {} THEN 0
    ELSE LET x == CHOOSE x \in S : TRUE
         IN  f[x] + SetSum(f, S \ {x})

TotalMinutes ==
    [p \in DOMAIN players |->
        SetSum([i \in 1..Len(characters) |-> characters[i].minutes_played_total],
               {i \in 1..Len(characters) : characters[i].player = p})]

PlaytimeRecords == {p \in DOMAIN players : TotalMinutes[p] > 0}

\* floor(v / w) * w of each record of the three populations.
LightKeys ==
    [i \in LightRecords |->
        (characters[i].light_level \div LIGHT_BUCKET) * LIGHT_BUCKET]

TriumphKeys ==
    [p \in TriumphRecords |->
        (players[p].active_triumph_score \div TRIUMPH_BUCKET) * TRIUMPH_BUCKET]

PlaytimeKeys ==
    [p \in PlaytimeRecords |->
        (TotalMinutes[p] \div (PLAYTIME_BUCKET * MINUTES_PER_HOUR)) * PLAYTIME_BUCKET]

CountSum(histogram) ==
    SetSum([j \in 1..Len(histogram) |-> histogram[j].count], 1..Len(histogram))

\* The histogram counts, under each key, exactly the records with that key,
\* has a key for every record, and lists its keys in ascending numeric order.
HistogramIsExact(histogram, key) ==
    /\ \A j \in 1..Len(histogram) :
          /\ histogram[j].count > 0
          /\ histogram[j].count =
                Cardinality({r \in DOMAIN key : key[r] = ParseInt(histogram[j].label)})
          /\ histogram[j].label = FormatInt(ParseInt(histogram[j].label))
    /\ \A r \in DOMAIN key :
          \E j \in 1..Len(histogram) : ParseInt(histogram[j].label) = key[r]
    /\ \A j, k \in 1..Len(histogram) :
          j < k => ParseInt(histogram[j].label) < ParseInt(histogram[k].label)
    /\ CountSum(histogram) = Cardinality(DOMAIN key)

\* C5: the three histograms of the stored snapshot count the valid records
\* exactly: under key floor(v / w) * w the number of records with metric > 0
\* in that bucket, keys ascending as numbers, counts summing to the number
\* of records with metric > 0.
C5_HistogramsAreExact ==
    cache # Null =>
        /\ HistogramIsExact(Val(cache).stats.light_level_distribution, LightKeys)
        /\ HistogramIsExact(Val(cache).stats.triumph_score_distribution, TriumphKeys)
        /\ HistogramIsExact(Val(cache).stats.play_time_distribution, PlaytimeKeys)

\* A stored power-level histogram with two values in bucket 90 and one in
\* bucket 100, and a triumph histogram with buckets 5000 and 10000.
C5_Witness ==
    /\ cache # Null
    /\ Val(cache).stats.light_level_distribution =
          <<[label |-> FormatInt(90), count |-> 2],
            [label |-> FormatInt(100), count |-> 1]>>
    /\ Len(Val(cache).stats.triumph_score_distribution) = 2

\* ---- quartiles
\* sorted(values)[k], 0-based: the value with at most k values below it
\* and more than k values not above it.
KthSmallest(values, k) ==
    CHOOSE x \in {values[i] : i \in 1..Len(values)} :
        /\ Cardinality({i \in 1..Len(values) : RatLt(values[i], x)}) <= k
        /\ Cardinality({i \in 1..Len(values) : RatLe(values[i], x)}) > k

QuartilesInOrder(values, e) ==
    LET n == Len(values)
    IN  /\ e.min = Some(KthSmallest(values, 0))
        /\ e.max = Some(KthSmallest(values, n - 1))
        /\ e.q1 = Some(KthSmallest(values, n \div 4))
        /\ e.q3 = Some(KthSmallest(values, (3 * n) \div 4))
        /\ ~IsNull(e.median)
        /\ RatLe(Val(e.min), Val(e.q1))
        /\ RatLe(Val(e.q1), Val(e.median))
        /\ RatLe(Val(e.median), Val(e.q3))
        /\ RatLe(Val(e.q3), Val(e.max))

\* C6 (as claimed): for every list of at least one valid value the computed
\* statistics have min <= q1 <= median <= q3 <= max with q1 = sorted[n // 4]
\* and q3 = sorted[(3n) // 4].
C6_QuartilesInOrderFromOneValue ==
    (calc.done /\ Len(calc.values) >= 1)
        => QuartilesInOrder(calc.values, calc.extended)

\* C6 (amended): the same for every list of at least two valid values; for
\* a single value no quartile is computed, every field is null.
C6_QuartilesInOrderFromTwoValues ==
    /\ (calc.done /\ Len(calc.values) >= 2)
          => QuartilesInOrder(calc.values, calc.extended)
    /\ (calc.done /\ Len(calc.values) = 1) => calc.extended = EmptyExtended

\* Four values whose quartiles are all different from the median.
C6_Witness ==
    /\ calc.done
    /\ Len(calc.values) = 4
    /\ RatLt(Val(calc.extended.min), Val(calc.extended.q1))
    /\ RatLt(Val(calc.extended.q1), Val(calc.extended.median))
    /\ RatLt(Val(calc.extended.median), Val(calc.extended.q3))

\* ---- the statistics tuples of the stored snapshot
ClassRecords(ct) ==
    {i \in LightRecords : characters[i].class_type = ct}

\* The sum and the number of the valid values of each metric; play time in
\* minutes.
LightSum ==
    SetSum([i \in 1..Len(characters) |-> characters[i].light_level], LightRecords)

TriumphSum ==
    SetSum([p \in PlayerIds |-> players[p].active_triumph_score], TriumphRecords)

MinutesSum == SetSum(TotalMinutes, PlaytimeRecords)

\* The statistics tuple of each metric as the snapshot row stores it, with
\* the number of valid values it was computed from.
MetricTuples(row) ==
    <<[n |-> Cardinality(LightRecords),
       mean |-> row.stats.avg_light_level, std |-> row.stats.stddev_light_level,
       median |-> row.stats.median_light_level,
       q1 |-> row.stats.q1_light_level, q3 |-> row.stats.q3_light_level,
       skewness |-> row.stats.skewness_light_level,
       kurtosis |-> row.stats.kurtosis_light_level,
       sum |-> IntRat(LightSum)],
      [n |-> Cardinality(TriumphRecords),
       mean |-> row.stats.avg_triumph_score, std |-> row.stats.stddev_triumph_score,
       median |-> row.stats.median_triumph_score,
       q1 |-> row.stats.q1_triumph_score, q3 |-> row.stats.q3_triumph_score,
       skewness |-> row.stats.skewness_triumph_score,
       kurtosis |-> row.stats.kurtosis_triumph_score,
       sum |-> IntRat(TriumphSum)],
      [n |-> Cardinality(PlaytimeRecords),
       mean |-> row.stats.avg_play_time_hours, std |-> row.stats.stddev_play_time_hours,
       median |-> row.stats.median_play_time_hours,
       q1 |-> row.stats.q1_play_time_hours, q3 |-> row.stats.q3_play_time_hours,
       skewness |-> row.stats.skewness_play_time_hours,
       kurtosis |-> row.stats.kurtosis_play_time_hours,
       sum |-> Norm(<<MinutesSum, MINUTES_PER_HOUR>>)]>>

ClassTuple(row, ct) ==
    LET entry == row.stats.class_statistics[class_names[ct]]
    IN  [n |-> Cardinality(ClassRecords(ct)),
         mean |-> entry.mean, std |-> entry.std, median |-> entry.median,
         q1 |-> entry.q1, q3 |-> entry.q3,
         skewness |-> entry.skewness, kurtosis |-> entry.kurtosis,
         sum |-> IntRat(SetSum([i \in 1..Len(characters) |-> characters[i].light_level],
                               ClassRecords(ct)))]

StoredTuples(row) ==
    {MetricTuples(row)[m] : m \in 1..3} \cup {ClassTuple(row, ct) : ct \in ClassTypes}

QuartilesNull(t) ==
    /\ IsNull(t.median) /\ IsNull(t.q1) /\ IsNull(t.q3)
    /\ IsNull(t.skewness) /\ IsNull(t.kurtosis)

\* C7 (as claimed): a metric or class with fewer than 2 valid values has
\* every field of its stored statistics tuple null, mean and standard
\* deviation included.
C7_EveryFieldNullBelowTwoValues ==
    cache # Null =>
        \A t \in StoredTuples(Val(cache)) :
            t.n < 2 => (QuartilesNull(t) /\ IsNull(t.mean) /\ IsNull(t.std))

\* C7 (amended): with fewer than 2 valid values the median, the quartiles,
\* the extremes, skewness and kurtosis are null, while the mean is stored as
\* 0 for no value and as the value itself for one value, and the standard
\* deviation as 0.
C7_QuartilesNullBelowTwoValues ==
    cache # Null =>
        /\ \A t \in StoredTuples(Val(cache)) :
              t.n < 2 => /\ QuartilesNull(t)
                         /\ t.mean = (IF t.n = 0 THEN Zero ELSE t.sum)
                         /\ t.std = Zero
        /\ Cardinality(LightRecords) < 2 =>
              /\ IsNull(Val(cache).stats.min_light_level)
              /\ IsNull(Val(cache).stats.max_light_level)
        /\ Cardinality(TriumphRecords) < 2 =>
              /\ IsNull(Val(cache).stats.min_triumph_score)
              /\ IsNull(Val(cache).stats.max_triumph_score)
        /\ \A ct \in ClassTypes :
              Cardinality(ClassRecords(ct)) < 2 =>
                 /\ IsNull(Val(cache).stats.class_statistics[class_names[ct]].min)
                 /\ IsNull(Val(cache).stats.class_statistics[class_names[ct]].max)

\* A snapshot of a store with exactly one power level, no triumph score and
\* one player with play time.
C7_Witness ==
    /\ cache # Null
    /\ Cardinality(LightRecords) = 1
    /\ Cardinality(TriumphRecords) = 0
    /\ Cardinality(PlaytimeRecords) = 1
    /\ Val(cache).stats.avg_light_level # Zero

\* C8 (as claimed): the standard deviation stored for each metric and each
\* class with at least 2 valid values is the sample standard deviation,
\* whose square is n * sum(x^2) - (sum x)^2 over n * (n - 1).
C8_StoredDeviationIsSample ==
    cache # Null =>
        /\ Cardinality(LightRecords) >= 2 =>
              Val(cache).stats.stddev_light_level = StdevSq(LightValues(characters))
        /\ Cardinality(TriumphRecords) >= 2 =>
              Val(cache).stats.stddev_triumph_score = StdevSq(TriumphValues(players))
        /\ Cardinality(PlaytimeRecords) >= 2 =>
              Val(cache).stats.stddev_play_time_hours = StdevSq(PlaytimeHours(characters))
        /\ \A ct \in ClassTypes :
              Cardinality(ClassRecords(ct)) >= 2 =>
                 Val(cache).stats.class_statistics[class_names[ct]].std
                    = StdevSq(ClassLightValues(characters, ct))

\* ---- class entries
ClassNames == {"titan", "hunter", "warlock"}

\* The class statistics have exactly the three entries, each counting the
\* characters of its class with a power level, an empty class as a record
\* with count 0, mean and standard deviation 0 and nothing else computed.
ThreeClassEntries(class_stats) ==
    /\ DOMAIN class_stats = ClassNames
    /\ \A ct \in ClassTypes :
          LET entry == class_stats[class_names[ct]]
          IN  /\ entry.count = Cardinality(ClassRecords(ct))
              /\ entry.count = 0 =>
                    /\ entry.mean = Zero /\ entry.std = Zero
                    /\ IsNull(entry.median) /\ IsNull(entry.q1) /\ IsNull(entry.q3)
                    /\ IsNull(entry.min) /\ IsNull(entry.max)
                    /\ IsNull(entry.skewness) /\ IsNull(entry.kurtosis)

MeanOf(sum, n) == IF n = 0 THEN Zero ELSE Norm(<<sum, n>>)

\* C10: each metric of the stored snapshot is computed over its own valid
\* records: the power levels of all characters with light_level > 0
\* whatever their owner's triumph score or play time, the triumph scores of
\* all players with a score > 0, the play time of all players with more
\* than 0 minutes.
C10_MetricsFilteredIndependently ==
    cache # Null =>
        /\ Val(cache).stats.avg_light_level
              = MeanOf(LightSum, Cardinality(LightRecords))
        /\ CountSum(Val(cache).stats.light_level_distribution)
              = Cardinality(LightRecords)
        /\ Val(cache).stats.avg_triumph_score
              = MeanOf(TriumphSum, Cardinality(TriumphRecords))
        /\ CountSum(Val(cache).stats.triumph_score_distribution)
              = Cardinality(TriumphRecords)
        /\ Val(cache).stats.avg_play_time_hours
              = MeanOf(MinutesSum, MINUTES_PER_HOUR * Cardinality(PlaytimeRecords))
        /\ CountSum(Val(cache).stats.play_time_distribution)
              = Cardinality(PlaytimeRecords)

\* A snapshot of a store in which a player without triumph score owns a
\* character with a power level, and a player with a triumph score has
\* characters but no play time.
C10_Witness ==
    /\ cache # Null
    /\ \E i \in LightRecords :
          players[characters[i].player].active_triumph_score = 0
    /\ \E p \in TriumphRecords :
          /\ TotalMinutes[p] = 0
          /\ \E i \in LightRecords : characters[i].player = p

\* ---- the power level of a player
\* max(light_level) over the player's characters, 0 without characters.
MaxLight ==
    [p \in DOMAIN players |->
        LET own == {characters[i].light_level :
                      i \in {j \in 1..Len(characters) : characters[j].player = p}}
        IN  IF own = {} THEN 0 ELSE CHOOSE m \in own : \A l \in own : l <= m]

PlayersWithLight == {p \in DOMAIN players : players[p].exists /\ MaxLight[p] > 0}

\* C11 (as claimed): the power-level population of the stored snapshot has
\* one value per player, the maximum power level of the player's
\* characters: as many values in the histogram as there are players with a
\* power level, and their mean as the stored mean.
C11_OnePowerLevelPerPlayer ==
    cache # Null =>
        /\ CountSum(Val(cache).stats.light_level_distribution)
              = Cardinality(PlayersWithLight)
        /\ Val(cache).stats.avg_light_level
              = MeanOf(SetSum(MaxLight, PlayersWithLight),
                       Cardinality(PlayersWithLight))

\* ------------------------------------------------ z-score and percentile
RatSub(a, b) == Norm(<<a[1] * b[2] - b[1] * a[2], a[2] * b[2]>>)

\* The product, cancelling across before multiplying.
RatMul(a, b) ==
    LET g1 == GCD(Abs(a[1]), b[2])
        g2 == GCD(Abs(b[1]), a[2])
    IN  IF a[1] = 0 \/ b[1] = 0 THEN Zero
        ELSE <<(a[1] \div g1) * (b[1] \div g2), (a[2] \div g2) * (b[2] \div g1)>>

\* The quotient by a number that is not 0.
RatDiv(a, b) ==
    RatMul(a, IF b[1] < 0 THEN <<-b[2], -b[1]>> ELSE <<b[2], b[1]>>)

Sign(a) == IF a[1] > 0 THEN 1 ELSE IF a[1] < 0 THEN -1 ELSE 0

\* What a call gives: a z-score, carried as its sign and its square (the
\* deviation it was divided by is carried as a square), or the exception
\* it raised.
ZScore(sign, sq) == [raised |-> "", sign |-> sign, sq |-> sq]
Raised(exception) == [raised |-> exception, sign |-> 0, sq |-> Zero]

\* Python's x / stddev on floats.
Divide(x, stddev) ==
    IF stddev = Zero THEN Raised("ZeroDivisionError")
    ELSE ZScore(Sign(x), RatDiv(RatMul(x, x), stddev))

\* The z-score without the test for a zero deviation.
calculate_z_score_unguarded(value, mean, stddev) ==
    IF IsNull(stddev) \/ IsNull(mean) THEN ZScore(0, Zero)
    ELSE Divide(RatSub(value, Val(mean)), Val(stddev))

\* services.calculate_z_score
calculate_z_score(value, mean, stddev) ==
    IF stddev = Some(Zero) \/ IsNull(stddev) \/ IsNull(mean) THEN ZScore(0, Zero)
    ELSE Divide(RatSub(value, Val(mean)), Val(stddev))

\* The squares of the z-scores at which the normal distribution function
\* reaches 75 % and 90 % (0.6745 and 1.2816, to three decimals of the
\* square), and of the z-score from which erf is 1.0 in double precision.
Z75Sq == <<91, 200>>
Z90Sq == <<821, 500>>
ZSaturatedSq == <<81, 1>>

\* services.calculate_percentile_from_zscore: 0.5 * (1 + erf(z / sqrt(2)))
\* * 100, to the precision of a table: exactly 50 at z = 0, and one value of
\* each band between the tabulated z-scores, mirrored for z < 0.
calculate_percentile_from_zscore(z) ==
    LET above == IF z.sq = Zero THEN 50
                 ELSE IF RatLt(z.sq, Z75Sq) THEN 60
                 ELSE IF RatLt(z.sq, Z90Sq) THEN 80
                 ELSE IF RatLt(z.sq, ZSaturatedSq) THEN 95
                 ELSE 100
    IN  IntRat(IF z.sign >= 0 THEN above ELSE 100 - above)

\* Python's round(x, ndigits) of a float x >= 0, scale = 10^ndigits: the
\* nearest multiple of 1/scale.  Halfway between two of them the float lies
\* a little to one side or the other of the decimal it stands for, so either
\* neighbour can come out.
RoundOutcomes(x, scale) ==
    LET scaled == RatMul(x, IntRat(scale))
        below == scaled[1] \div scaled[2]
        rest == RatSub(scaled, IntRat(below))
    IN  IF RatLt(rest, <<1, 2>>) THEN {Norm(<<below, scale>>)}
        ELSE IF rest = <<1, 2>>
             THEN {Norm(<<below, scale>>), Norm(<<below + 1, scale>>)}
        ELSE {Norm(<<below + 1, scale>>)}

TopPercentOfFifty(percentile) == RatSub(IntRat(50), percentile)

\* 100 - percentile
TopPercent(percentile) == RatSub(IntRat(100), percentile)

\* One metric's entry of the position: the value, the z-score (its rounding
\* to two decimals is not carried), the percentile and the top percent
\* rounded to one decimal.
PositionEntries(value, z, percentile) ==
    {[value |-> value, z_score |-> z, percentile |-> p, top_percent |-> t] :
        p \in RoundOutcomes(percentile, 10),
        t \in RoundOutcomes(TopPercent(percentile), 10)}

\* ---- calls of the two functions on their own
ScoreValues == {IntRat(0), IntRat(95), IntRat(100), <<201, 2>>}
ScoreMeans == {Null} \cup {Some(m) : m \in {Zero, IntRat(100), <<195, 2>>}}
ScoreDeviations == {Null} \cup {Some(d) : d \in {Zero, <<25, 4>>, IntRat(25)}}

ZScoreCalls ==
    {[op |-> "z_score", done |-> FALSE, value |-> v, mean |-> m, stddev |-> d,
      z |-> ZScore(0, Zero)] :
        v \in ScoreValues, m \in ScoreMeans, d \in ScoreDeviations}

\* Every percentile from 0 to 100 in steps of 1 / PercentileGrain.
PercentileCalls ==
    {[op |-> "percentile", done |-> FALSE,
      percentile |-> Norm(<<n, PercentileGrain>>), entry |-> Null] :
        n \in 0..(100 * PercentileGrain)}

CalculateZScore ==
    /\ result.op = "z_score"
    /\ ~result.done
    /\ result' = [result EXCEPT !.done = TRUE,
                    !.z = calculate_z_score(result.value, result.mean, result.stddev)]
    /\ UNCHANGED <<players, characters, cache, now, ticks, syncs,
                   SCIPY_AVAILABLE, req, calc>>

ReportPercentile ==
    /\ result.op = "percentile"
    /\ ~result.done
    /\ \E entry \in PositionEntries(Zero, ZScore(0, Zero), result.percentile) :
         result' = [result EXCEPT !.done = TRUE, !.entry = Some(entry)]
    /\ UNCHANGED <<players, characters, cache, now, ticks, syncs,
                   SCIPY_AVAILABLE, req, calc>>

InitScore ==
    /\ EmptyStore
    /\ cache = Null
    /\ now = 0
    /\ ticks = 0
    /\ syncs = 0
    /\ SCIPY_AVAILABLE \in BOOLEAN
    /\ req = [w \in Workers |-> IdleRequest]
    /\ calc = NoCalc
    /\ result \in ZScoreCalls \cup PercentileCalls

NextScore ==
    \/ CalculateZScore
    \/ ReportPercentile

SpecScore == InitScore /\ [][NextScore]_vars

\* C12: calculate_z_score raises nothing and divides by no zero: it returns
\* 0 when the deviation is zero or null or the mean is null, and otherwise
\* the number z with the sign of value - mean and z * stddev = value - mean
\* (squared: z^2 * stddev^2 = (value - mean)^2).
C12_ZScoreIsGuarded ==
    (result.op = "z_score" /\ result.done) =>
        /\ result.z.raised = ""
        /\ IF result.stddev \in {Null, Some(Zero)} \/ result.mean = Null
           THEN result.z = ZScore(0, Zero)
           ELSE LET diff == RatSub(result.value, Val(result.mean))
                IN  /\ result.z.sign = Sign(diff)
                    /\ RatMul(result.z.sq, Val(result.stddev)) = RatMul(diff, diff)

\* z_score(100, 100, 0) has returned 0.
C12_Witness ==
    /\ result.op = "z_score"
    /\ result.done
    /\ result.value = IntRat(100)
    /\ result.mean = Some(IntRat(100))
    /\ result.stddev = Some(Zero)
    /\ result.z = ZScore(0, Zero)

\* C13: the percentile and the top percent of a position entry, each rounded
\* to one decimal, lie in [0, 100] and sum to 100 to within the 0.1 of the
\* rounding.
C13_PercentilesSumToHundred ==
    (result.op = "percentile" /\ result.done) =>
        LET entry == Val(result.entry)
            sum == RatAdd(entry.percentile, entry.top_percent)
        IN  /\ RatLe(Zero, entry.percentile) /\ RatLe(entry.percentile, IntRat(100))
            /\ RatLe(Zero, entry.top_percent) /\ RatLe(entry.top_percent, IntRat(100))
            /\ RatLe(<<999, 10>>, sum) /\ RatLe(sum, <<1001, 10>>)

\* A percentile halfway between two decimals whose two roundings both went
\* up: 0.1 and 100.0 for 0.05.
C13_Witness ==
    /\ result.op = "percentile"
    /\ result.done
    /\ result.percentile = <<1, 20>>
    /\ Val(result.entry).percentile = <<1, 10>>
    /\ Val(result.entry).top_percent = IntRat(100)

\* ------------------------------------------- get_user_statistics_position
\* The Bungie membership of each player record: unique as a pair, as the
\* table requires, with an id that two platforms can share.
MembershipTypes == {1, 2, 3}

MemberIds == 1..(MaxPlayers + 1)

MembershipOf ==
    [p \in MemberIds |->
        [membership_id |-> (p + 1) \div 2, membership_type |-> 1 + ((p + 1) % 2)]]

\* The logged-in users: one for every player record and one, on a third
\* platform, that has none.
Users ==
    UNION {{[bungie_membership_id |-> MembershipOf[p].membership_id,
             bungie_membership_type |-> t] :
               t \in {MembershipOf[p].membership_type, 3}} : p \in PlayerIds}

\* A lookup by the membership id alone.
FindPlayerByIdAlone(pls, user) ==
    {p \in DOMAIN pls :
        /\ pls[p].exists
        /\ MembershipOf[p].membership_id = user.bungie_membership_id}

\* DestinyPlayer.objects.get(membership_id=..., membership_type=...): the
\* rows that match, none meaning DoesNotExist.
FindPlayer(pls, user) ==
    {p \in DOMAIN pls :
        /\ pls[p].exists
        /\ MembershipOf[p].membership_id = user.bungie_membership_id
        /\ MembershipOf[p].membership_type = user.bungie_membership_type}

\* player.characters.aggregate(Max('light_level'))['max_light'] or 0
UserMaxLight(chars, p) ==
    LET own == {chars[i].light_level : i \in {j \in 1..Len(chars) : chars[j].player = p}}
    IN  IF own = {} THEN 0 ELSE CHOOSE m \in own : \A l \in own : l <= m

\* player.characters.aggregate(Sum('minutes_played_total'))['total'] or 0,
\* over 60.0
UserPlaytimeHours(chars, p) == Norm(<<MinutesOf(chars, p), MINUTES_PER_HOUR>>)

\* The dicts get_user_statistics_position can return for a player and a
\* snapshot row, or the exception a z-score raised.
Positions(row, pls, chars, p) ==
    LET user_max_light == IntRat(UserMaxLight(chars, p))
        user_triumph == IntRat(pls[p].active_triumph_score)
        user_playtime_hours == UserPlaytimeHours(chars, p)
        light_z == calculate_z_score(user_max_light,
                      Some(row.stats.avg_light_level), Some(row.stats.stddev_light_level))
        triumph_z == calculate_z_score(user_triumph,
                      Some(row.stats.avg_triumph_score), Some(row.stats.stddev_triumph_score))
        playtime_z == calculate_z_score(user_playtime_hours,
                      Some(row.stats.avg_play_time_hours), Some(row.stats.stddev_play_time_hours))
        failed == {z.raised : z \in {light_z, triumph_z, playtime_z}} \ {""}
    IN  IF failed # {}
        THEN {[raised |-> exception, position |-> Null] : exception \in failed}
        ELSE {[raised |-> "",
               position |-> Some([light_level |-> light, triumph_score |-> triumph,
                                  play_time |-> play])] :
                light \in PositionEntries(user_max_light, light_z,
                             calculate_percentile_from_zscore(light_z)),
                triumph \in PositionEntries(user_triumph, triumph_z,
                             calculate_percentile_from_zscore(triumph_z)),
                play \in UNION {PositionEntries(hours, playtime_z,
                                   calculate_percentile_from_zscore(playtime_z)) :
                                  hours \in RoundOutcomes(user_playtime_hours, 10)}}

\* get_user_statistics_position(user), from the snapshot row in hand to
\* the return: None without a player record, the position otherwise.
AnswerPosition(w, user) ==
    /\ req[w].pc = "respond"
    /\ req[w].kind = "position"
    /\ LET found == FindPlayer(players, user)
       IN  IF found = {}
           THEN result' = [op |-> "position", user |-> user, raised |-> "",
                           position |-> Null]
           ELSE \E p \in found :
                  \E answered \in Positions(Val(req[w].cache), players, characters, p) :
                     result' = [op |-> "position", user |-> user,
                                raised |-> answered.raised,
                                position |-> answered.position]
    /\ req' = [req EXCEPT ![w] = IdleRequest]
    /\ UNCHANGED <<players, characters, cache, now, ticks, syncs,
                   SCIPY_AVAILABLE, calc>>

\* The first position request, of any user, over a populated store.
NextPosition ==
    \/ result = NoResult /\ StartRequest(1, "position")
    \/ GetCache(1)
    \/ Refreshing(1)
    \/ \E user \in Users : AnswerPosition(1, user)

SpecPosition == InitStats /\ [][NextPosition]_vars

\* The player records with the membership of a user.
RecordsOf(user) ==
    {p \in DOMAIN players :
        /\ players[p].exists
        /\ MembershipOf[p] = [membership_id |-> user.bungie_membership_id,
                              membership_type |-> user.bungie_membership_type]}

HasCharacter(p) == \E i \in 1..Len(characters) : characters[i].player = p

\* C14: get_user_statistics_position raises nothing; it returns null as a
\* whole for a user without player record and otherwise all three entries,
\* light_level, triumph_score and play_time, each with value, z_score,
\* percentile and top_percent, also for a player without characters.
C14_PositionWholeOrNull ==
    result.op = "position" =>
        /\ result.raised = ""
        /\ IF RecordsOf(result.user) = {}
           THEN result.position = Null
           ELSE /\ result.position # Null
                /\ DOMAIN Val(result.position)
                      = {"light_level", "triumph_score", "play_time"}
                /\ \A metric \in DOMAIN Val(result.position) :
                      LET entry == Val(result.position)[metric]
                      IN  /\ DOMAIN entry
                                = {"value", "z_score", "percentile", "top_percent"}
                          /\ entry.z_score.raised = ""
                          /\ RatLe(Zero, entry.percentile)
                          /\ RatLe(entry.percentile, IntRat(100))
                /\ \A p \in RecordsOf(result.user) :
                      /\ Val(result.position).light_level.value = IntRat(MaxLight[p])
                      /\ Val(result.position).triumph_score.value
                            = IntRat(players[p].active_triumph_score)

\* The position of a player without characters against a snapshot with a
\* spread of power levels: value 0, below the mean.
C14_Witness ==
    /\ result.op = "position"
    /\ \E p \in RecordsOf(result.user) : ~HasCharacter(p)
    /\ result.position # Null
    /\ Val(result.position).light_level.value = Zero
    /\ Val(result.position).light_level.z_score.sign = -1

\* ------------------------------------------------------ hypothesis tests
\* A float that can be undefined: a number, inf, or nan.
Finite(v) == [kind |-> "finite", value |-> v]
Inf == [kind |-> "inf"]
Nan == [kind |-> "nan"]

\* numpy's a / b on floats, a >= 0 and b >= 0: x / 0 is inf and 0 / 0 is
\* nan, with a warning and without exception.
FloatDiv(a, b) ==
    IF b # Zero THEN Finite(RatDiv(a, b))
    ELSE IF a = Zero THEN Nan
    ELSE Inf

RECURSIVE RatPow(_, _)
RatPow(a, k) == IF k = 0 THEN IntRat(1) ELSE RatMul(a, RatPow(a, k - 1))

\* The sum of the squared deviations of a list from its mean.
SumOfSquares(values) ==
    IF values = <<>> THEN Zero
    ELSE LET d == CommonDen(values)
         IN  Norm(<<ScaledSS(values), d * d * Len(values)>>)

MinOf(values) == sorted(values)[1]
MaxOf(values) == sorted(values)[Len(values)]

\* alpha = 0.05, as the square a p-value carried as its square is compared
\* with.
AlphaSq == <<1, 400>>

\* scipy.stats.f_oneway on three groups of at least two values: the ratio
\* of the mean square between the groups (2 degrees of freedom) to the
\* mean square within them (N - 3), and the upper tail of the F
\* distribution at it, which for 2 and N - 3 degrees of freedom is
\* (ssw / sst) ^ ((N - 3) / 2); carried as its square.  With no variation
\* within the groups the ratio is inf (p = 0) when the means differ and
\* nan (p = nan) when all values are the same.
f_oneway(titan, hunter, warlock) ==
    LET all == titan \o hunter \o warlock
        dfwn == Len(all) - 3
        sstot == SumOfSquares(all)
        sswn == RatAdd(SumOfSquares(titan),
                       RatAdd(SumOfSquares(hunter), SumOfSquares(warlock)))
        ssbn == RatSub(sstot, sswn)
        f == FloatDiv(RatDivInt(ssbn, 2), RatDivInt(Norm(sswn), dfwn))
    IN  [f_stat |-> f,
         p_value_sq |-> IF f.kind = "nan" THEN Nan
                        ELSE IF f.kind = "inf" THEN Finite(Zero)
                        ELSE Finite(RatPow(RatDiv(Norm(sswn), sstot), dfwn))]

\* p_value < alpha on floats: False when p_value is nan.
LessThanAlpha(p_value_sq) ==
    p_value_sq.kind = "finite" /\ RatLt(p_value_sq.value, AlphaSq)

\* round(float(x), ndigits) of a float that can be undefined.
RoundFloat(x, scale) ==
    IF x.kind = "finite" THEN {Finite(v) : v \in RoundOutcomes(x.value, scale)}
    ELSE {x}

\* The entry of one class in the result of the test.
GroupEntry(levels) ==
    [n |-> Len(levels), mean |-> Mean(levels), std_sq |-> StdevSq(levels),
     min |-> MinOf(levels), max |-> MaxOf(levels)]

\* The test asking for three values in each class.
HasTooFewBelowThree(titan_levels, hunter_levels, warlock_levels) ==
    Len(titan_levels) < 3 \/ Len(hunter_levels) < 3 \/ Len(warlock_levels) < 3

\* len(titan_levels) < 2 or len(hunter_levels) < 2 or len(warlock_levels) < 2
HasTooFew(titan_levels, hunter_levels, warlock_levels) ==
    Len(titan_levels) < 2 \/ Len(hunter_levels) < 2 \/ Len(warlock_levels) < 2

\* statistics_service.class_light_level_anova: the dicts it can return
\* (the rounding of a float halfway between two decimals can go either
\* way).
class_light_level_anova(scipy, chars) ==
    LET titan_levels == ClassLightValues(chars, 0)
        hunter_levels == ClassLightValues(chars, 1)
        warlock_levels == ClassLightValues(chars, 2)
        test == f_oneway(titan_levels, hunter_levels, warlock_levels)
    IN  IF ~scipy
        THEN {[available |-> FALSE, error |-> "scipy is not installed",
               test_name |-> "One-way ANOVA"]}
        ELSE IF HasTooFew(titan_levels, hunter_levels, warlock_levels)
        THEN {[available |-> FALSE, error |-> "each class needs at least 2 values",
               test_name |-> "One-way ANOVA",
               groups |-> [titan |-> [n |-> Len(titan_levels)],
                           hunter |-> [n |-> Len(hunter_levels)],
                           warlock |-> [n |-> Len(warlock_levels)]]]}
        ELSE {[available |-> TRUE,
               test_name |-> "One-way ANOVA",
               groups |-> [titan |-> GroupEntry(titan_levels),
                           hunter |-> GroupEntry(hunter_levels),
                           warlock |-> GroupEntry(warlock_levels)],
               statistics |-> [f_statistic |-> f,
                               p_value_sq |-> test.p_value_sq,
                               df_between |-> 2,
                               df_within |-> Len(titan_levels) + Len(hunter_levels)
                                                + Len(warlock_levels) - 3],
               result |-> [significant |-> LessThanAlpha(test.p_value_sq)]] :
                 f \in RoundFloat(test.f_stat, 10000)}

\* The players of a store, in the order of their ids.
RECURSIVE PairsFrom(_, _, _, _)
PairsFrom(pls, chars, i, last) ==
    IF i > last THEN <<>>
    ELSE (IF pls[i].exists /\ pls[i].active_triumph_score > 0
             /\ UserMaxLight(chars, i) > 0
          THEN <<[x |-> UserMaxLight(chars, i), y |-> pls[i].active_triumph_score]>>
          ELSE <<>>)
         \o PairsFrom(pls, chars, i + 1, last)

\* The pairs of every player with a power level, with a triumph score or
\* not.
RECURSIVE PairsOfAllFrom(_, _, _, _)
PairsOfAllFrom(pls, chars, i, last) ==
    IF i > last THEN <<>>
    ELSE (IF pls[i].exists /\ UserMaxLight(chars, i) > 0
          THEN <<[x |-> UserMaxLight(chars, i), y |-> pls[i].active_triumph_score]>>
          ELSE <<>>)
         \o PairsOfAllFrom(pls, chars, i + 1, last)

CorrelationPairsOfAll(pls, chars) ==
    PairsOfAllFrom(pls, chars, 1, Cardinality(DOMAIN pls))

\* The loop over DestinyPlayer.objects.filter(active_triumph_score__gt=0)
\* that appends a player's highest light level and triumph score when
\* that light level is above 0.
CorrelationPairs(pls, chars) == PairsFrom(pls, chars, 1, Cardinality(DOMAIN pls))

Column(pairs, side) ==
    [i \in 1..Len(pairs) |-> IF side = "x" THEN pairs[i].x ELSE pairs[i].y]

RECURSIVE SumProducts(_)
SumProducts(pairs) ==
    IF pairs = <<>> THEN 0
    ELSE Head(pairs).x * Head(pairs).y + SumProducts(Tail(pairs))

\* n times the sum of the products of the deviations of x and of y.
ScaledSP(pairs) ==
    Len(pairs) * SumProducts(pairs)
        - SumSeq(Column(pairs, "x")) * SumSeq(Column(pairs, "y"))

ScaledSSInt(xs) == Len(xs) * SumSq(xs) - SumSeq(xs) * SumSeq(xs)

\* A correlation coefficient: nan, or its sign and its square.
Coefficient(sign, sq) == [kind |-> "finite", sign |-> sign, sq |-> sq]

\* scipy.stats.pearsonr on at least three pairs: the coefficient and
\* whether its p-value is a number.  When x or y is constant both are nan,
\* with a warning.
pearsonr(pairs) ==
    LET sxx == ScaledSSInt(Column(pairs, "x"))
        syy == ScaledSSInt(Column(pairs, "y"))
        sxy == ScaledSP(pairs)
    IN  IF sxx = 0 \/ syy = 0 THEN [r |-> Nan, p_value |-> Nan]
        ELSE [r |-> Coefficient(Sign(IntRat(sxy)),
                        RatMul(Norm(<<Abs(sxy), sxx>>), Norm(<<Abs(sxy), syy>>))),
              p_value |-> [kind |-> "finite"]]

\* scipy.stats.linregress: the least-squares slope and intercept.  When
\* all x are the same, the releases from 1.6 on raise ValueError and the
\* earlier ones divide 0 by 0 and give nan.
linregress(pairs) ==
    LET n == Len(pairs)
        sxx == ScaledSSInt(Column(pairs, "x"))
        sxy == ScaledSP(pairs)
        slope == Norm(<<sxy, sxx>>)
        xmean == Norm(<<SumSeq(Column(pairs, "x")), n>>)
        ymean == Norm(<<SumSeq(Column(pairs, "y")), n>>)
    IN  IF sxx = 0
        THEN {[raised |-> "ValueError"],
              [raised |-> "", slope |-> Nan, intercept |-> Nan]}
        ELSE {[raised |-> "", slope |-> Finite(slope),
               intercept |-> Finite(RatSub(ymean, RatMul(slope, xmean)))]}

\* The strength of a coefficient from abs_r >= 0.7, >= 0.4, >= 0.2: every
\* comparison with nan is False.
Strength(r) ==
    IF r.kind = "finite" /\ RatLe(<<49, 100>>, r.sq) THEN "strong"
    ELSE IF r.kind = "finite" /\ RatLe(<<16, 100>>, r.sq) THEN "moderate"
    ELSE IF r.kind = "finite" /\ RatLe(<<4, 100>>, r.sq) THEN "weak"
    ELSE "negligible"

\* 'positive' if r > 0 else 'negative'
Direction(r) == IF r.kind = "finite" /\ r.sign > 0 THEN "positive" ELSE "negative"

\* len(light_levels) < 3
SampleTooSmall(pairs) == Len(pairs) < 3

\* statistics_service.light_triumph_correlation: the dicts it can return,
\* or the exception it raises.
light_triumph_correlation(scipy, pls, chars) ==
    LET pairs == CorrelationPairs(pls, chars)
        light_levels == Column(pairs, "x")
        triumph_scores == Column(pairs, "y")
        test == pearsonr(pairs)
    IN  IF ~scipy
        THEN {[raised |-> "",
               value |-> [available |-> FALSE, error |-> "scipy is not installed",
                          test_name |-> "Pearson Correlation"]]}
        ELSE IF SampleTooSmall(pairs)
        THEN {[raised |-> "",
               value |-> [available |-> FALSE,
                          error |-> "the analysis needs at least 3 pairs",
                          test_name |-> "Pearson Correlation",
                          sample_size |-> Len(light_levels)]]}
        ELSE {IF line.raised # "" THEN [raised |-> line.raised]
              ELSE [raised |-> "",
                    value |-> [available |-> TRUE,
                               test_name |-> "Pearson Correlation",
                               sample_size |-> Len(light_levels),
                               statistics |-> [correlation_coefficient |-> test.r,
                                               p_value |-> test.p_value],
                               regression |-> [slope |-> line.slope,
                                               intercept |-> line.intercept],
                               result |-> [strength_en |-> Strength(test.r),
                                           direction_en |-> Direction(test.r)],
                               scatter_data |-> [x |-> light_levels,
                                                 y |-> triumph_scores]]] :
                 line \in linregress(pairs)}

\* class_light_level_anova() as a query of the record store.
ClassAnova ==
    /\ \E value \in class_light_level_anova(SCIPY_AVAILABLE, characters) :
          result' = [op |-> "anova", raised |-> "", value |-> value]
    /\ UNCHANGED <<players, characters, cache, now, ticks, syncs,
                   SCIPY_AVAILABLE, req, calc>>

\* light_triumph_correlation() as a query of the record store.
Correlation ==
    /\ \E returned \in light_triumph_correlation(SCIPY_AVAILABLE, players, characters) :
          result' = [op |-> "correlation"] @@ returned
    /\ UNCHANGED <<players, characters, cache, now, ticks, syncs,
                   SCIPY_AVAILABLE, req, calc>>

\* get_all_hypothesis_tests(): both tests, one after the other; an
\* exception of either is the exception of the whole.
AllHypothesisTests ==
    /\ \E anova \in class_light_level_anova(SCIPY_AVAILABLE, characters),
          returned \in light_triumph_correlation(SCIPY_AVAILABLE, players, characters) :
          result' = IF returned.raised # ""
                    THEN [op |-> "all_tests", raised |-> returned.raised]
                    ELSE [op |-> "all_tests", raised |-> "",
                          value |-> [class_anova |-> anova,
                                     light_triumph_correlation |-> returned.value,
                                     scipy_available |-> SCIPY_AVAILABLE]]
    /\ UNCHANGED <<players, characters, cache, now, ticks, syncs,
                   SCIPY_AVAILABLE, req, calc>>

\* A record store for the tests: MaxSample players, each without triumph
\* score or with one of two, and ClassSize characters of each class, each
\* without power level or with one of two, dealt to the players in turn.
MaxSample == 4
ClassSize == 2
SamplePlayerIds == 1..MaxSample
SampleScores == {0, 5000, 8000}
SampleLights == {0, 100, 110}

SampleTables ==
    {[i \in 1..(3 * ClassSize) |->
        CharacterRow(((i - 1) % MaxSample) + 1, i, (i - 1) \div ClassSize,
                     lights[i], 0)] :
       lights \in [1..(3 * ClassSize) -> SampleLights]}

InitTests ==
    /\ players \in [SamplePlayerIds -> {PlayerRow(score) : score \in SampleScores}]
    /\ characters \in SampleTables
    /\ Quiet
    /\ calc = NoCalc

\* The first query of a populated store.
NextTests ==
    \/ result = NoResult /\ ClassAnova
    \/ result = NoResult /\ Correlation
    \/ result = NoResult /\ AllHypothesisTests

SpecTests == InitTests /\ [][NextTests]_vars

\* ---- the answers of the hypothesis tests
\* The result of each test in the last answer, when it returned one.
AnovaResults ==
    IF result.op = "anova" THEN {result.value}
    ELSE IF result.op = "all_tests" /\ result.raised = ""
    THEN {result.value.class_anova}
    ELSE {}

CorrelationResults ==
    IF result.op = "correlation" /\ result.raised = "" THEN {result.value}
    ELSE IF result.op = "all_tests" /\ result.raised = ""
    THEN {result.value.light_triumph_correlation}
    ELSE {}

\* The classes with fewer than 2 characters with a power level.
DeficientClasses == {ct \in ClassTypes : Cardinality(ClassRecords(ct)) < 2}

\* The players with a triumph score and with a character with a power
\* level.
PairedPlayers ==
    {p \in DOMAIN players :
        /\ players[p].exists
        /\ players[p].active_triumph_score > 0
        /\ \E i \in LightRecords : characters[i].player = p}

\* A failure that gives the number of valid power levels of each class.
NamesDeficientGroups(anova) ==
    /\ {"error", "groups"} \subseteq DOMAIN anova
    /\ DOMAIN anova.groups = ClassNames
    /\ \A ct \in ClassTypes :
          anova.groups[class_names[ct]].n = Cardinality(ClassRecords(ct))

ValidLevels == {characters[i].light_level : i \in LightRecords}

\* C16 (as claimed): when every class has at least 2 valid power levels
\* and all of them are the same value, class_light_level_anova gives a
\* tagged failure or F = 0 with p = 1 and significant = false, never a
\* success whose F-statistic or p-value is undefined.
C16_ZeroVarianceOutcomeIsDefined ==
    \A anova \in AnovaResults :
        SCIPY_AVAILABLE /\ DeficientClasses = {} /\ Cardinality(ValidLevels) = 1 =>
            \/ ~anova.available /\ "error" \in DOMAIN anova
            \/ /\ anova.available
               /\ anova.statistics.f_statistic = Finite(Zero)
               /\ anova.statistics.p_value_sq = Finite(IntRat(1))
               /\ ~anova.result.significant

\* The highest power level among the characters of a player that have
\* one.
HighestLevel(p) ==
    LET own == {characters[i].light_level :
                  i \in {j \in LightRecords : characters[j].player = p}}
    IN  CHOOSE m \in own : \A l \in own : l <= m

\* The number of pairs of a sample made of a power level and a score.
PairCount(sample, x, y) ==
    Cardinality({i \in 1..Len(sample.x) : sample.x[i] = x /\ sample.y[i] = y})

\* x and y are the pairs of the players with a power level and a
\* triumph score, one for each of them.
IsSampleOfPairedPlayers(sample) ==
    /\ Len(sample.x) = Cardinality(PairedPlayers)
    /\ Len(sample.y) = Cardinality(PairedPlayers)
    /\ \A p \in PairedPlayers :
          PairCount(sample, HighestLevel(p), players[p].active_triumph_score)
             = Cardinality({q \in PairedPlayers :
                              /\ HighestLevel(q) = HighestLevel(p)
                              /\ players[q].active_triumph_score
                                    = players[p].active_triumph_score})

\* C17: the correlation sample has exactly one pair for each player with
\* triumph score > 0 and highest power level > 0, of that power level and
\* that score, and none for any other player; sample_size is the number of
\* pairs, and the scatter lists x and y both have that length.
C17_OnePairPerPairedPlayer ==
    \A correlation \in CorrelationResults :
        SCIPY_AVAILABLE =>
            /\ correlation.sample_size = Cardinality(PairedPlayers)
            /\ correlation.available =>
                  /\ IsSampleOfPairedPlayers(correlation.scatter_data)
                  /\ Len(correlation.scatter_data.x) = correlation.sample_size
                  /\ Len(correlation.scatter_data.y) = correlation.sample_size

\* A sample of three pairs from four players, the fourth having a power
\* level and no triumph score, one of the three having two characters
\* with different power levels.
C17_Witness ==
    /\ result.op = "correlation"
    /\ result.raised = ""
    /\ result.value.available
    /\ result.value.sample_size = 3
    /\ \E p \in DOMAIN players :
          /\ players[p].active_triumph_score = 0
          /\ \E i \in LightRecords : characters[i].player = p
    /\ \E p \in PairedPlayers :
          \E i \in LightRecords :
             characters[i].player = p /\ characters[i].light_level < HighestLevel(p)

\* C18 (as claimed): a successful correlation result reports exactly the
\* strength band of its coefficient r, strong for |r| >= 0.7, moderate for
\* 0.4 <= |r| < 0.7, weak for 0.2 <= |r| < 0.4, negligible for |r| < 0.2,
\* and the direction of its sign: positive exactly when r > 0, negative
\* exactly when r < 0.
C18_StrengthAndDirectionFollowR ==
    \A correlation \in CorrelationResults :
        correlation.available =>
            LET r == correlation.statistics.correlation_coefficient
                AbsAtLeast(bound_sq) == r.kind = "finite" /\ RatLe(bound_sq, r.sq)
                AbsBelow(bound_sq) == r.kind = "finite" /\ RatLt(r.sq, bound_sq)
                strength == correlation.result.strength_en
                direction == correlation.result.direction_en
            IN  /\ strength \in {"strong", "moderate", "weak", "negligible"}
                /\ strength = "strong" <=> AbsAtLeast(<<49, 100>>)
                /\ strength = "moderate" <=>
                      AbsAtLeast(<<16, 100>>) /\ AbsBelow(<<49, 100>>)
                /\ strength = "weak" <=>
                      AbsAtLeast(<<4, 100>>) /\ AbsBelow(<<16, 100>>)
                /\ strength = "negligible" <=> AbsBelow(<<4, 100>>)
                /\ direction \in {"positive", "negative"}
                /\ direction = "positive" <=> r.kind = "finite" /\ r.sign > 0
                /\ direction = "negative" <=> r.kind = "finite" /\ r.sign < 0

\* A result that is populated, or a failure with a reason.
IsTaggedResult(test, populated) ==
    /\ "available" \in DOMAIN test
    /\ IF test.available THEN populated \subseteq DOMAIN test
       ELSE "error" \in DOMAIN test

\* C19 (as claimed): class_light_level_anova, light_triumph_correlation
\* and get_all_hypothesis_tests raise nothing, for every record store and
\* with or without the statistics backend: without it each test returns
\* available = false with a reason, with it each returns a populated
\* result or a tagged failure, also when all paired power levels or all
\* triumph scores are the same.
C19_TestsNeverRaise ==
    result.op \in {"anova", "correlation", "all_tests"} =>
        /\ result.raised = ""
        /\ result.op = "all_tests" =>
              DOMAIN result.value
                 = {"class_anova", "light_triumph_correlation", "scipy_available"}
        /\ \A anova \in AnovaResults :
              /\ IsTaggedResult(anova, {"groups", "statistics", "result"})
              /\ ~SCIPY_AVAILABLE => ~anova.available
        /\ \A correlation \in CorrelationResults :
              /\ IsTaggedResult(correlation,
                    {"sample_size", "statistics", "regression", "result",
                     "scatter_data"})
              /\ ~SCIPY_AVAILABLE => ~correlation.available

\* ------------------------------------------------------- get_leaderboard
Categories == {"light_level", "triumph_score", "play_time"}

\* player.characters.aggregate(total=Sum('minutes_played_total'))['total'],
\* 0 standing for None.
UserTotalMinutes(chars, p) == MinutesOf(chars, p)

\* The players a category lists: those with a highest light level, a
\* triumph score or a total of minutes above 0.
Listed(category, pls, chars) ==
    {p \in DOMAIN pls :
        /\ pls[p].exists
        /\ CASE category = "light_level" -> UserMaxLight(chars, p) > 0
             [] category = "triumph_score" -> pls[p].active_triumph_score > 0
             [] category = "play_time" -> UserTotalMinutes(chars, p) > 0}

\* The values the listed players can be given: the light level and the
\* score as they are, the minutes as round(total_minutes / 60.0, 1).
ListedValues(category, pls, chars) ==
    LET listed == Listed(category, pls, chars)
    IN  {values \in [listed -> UNION {
                        CASE category = "light_level" -> {IntRat(UserMaxLight(chars, p))}
                          [] category = "triumph_score" -> {IntRat(pls[p].active_triumph_score)}
                          [] category = "play_time" ->
                                RoundOutcomes(UserPlaytimeHours(chars, p), 10) :
                        p \in listed}] :
           \A p \in listed :
              values[p] \in
                 CASE category = "light_level" -> {IntRat(UserMaxLight(chars, p))}
                   [] category = "triumph_score" -> {IntRat(pls[p].active_triumph_score)}
                   [] category = "play_time" ->
                         RoundOutcomes(UserPlaytimeHours(chars, p), 10)}

\* The players in the order the query gave them, the sort left out.
InQueryOrder(values) ==
    {order \in [1..Cardinality(DOMAIN values) -> DOMAIN values] :
        \A i, j \in DOMAIN order : i # j => order[i] # order[j]}

\* The orders in which the players can come out by falling value: sort(
\* key=value, reverse=True) keeps players of equal value in the order the
\* query gave them, and order_by('-active_triumph_score') leaves the order
\* of equal scores to the database; neither query has another ordering.
Descending(values) ==
    {order \in [1..Cardinality(DOMAIN values) -> DOMAIN values] :
        /\ \A i, j \in DOMAIN order : i # j => order[i] # order[j]
        /\ \A i, j \in DOMAIN order : i < j => RatLe(values[order[j]], values[order[i]])}

\* list[:limit]: the first limit items, and with a negative limit all but
\* the last -limit.
SliceLength(n, limit) ==
    IF limit >= 0 THEN (IF limit < n THEN limit ELSE n)
    ELSE (IF n + limit > 0 THEN n + limit ELSE 0)

\* The rows of the list with their ranks from enumerate(..., 1).
Ranked(order, values, k) ==
    [i \in 1..k |->
        [rank |-> i, player_id |-> order[i],
         membership_id |-> MembershipOf[order[i]].membership_id,
         membership_type |-> MembershipOf[order[i]].membership_type,
         value |-> values[order[i]]]]

\* services.get_leaderboard: the lists it can return, or the exception it
\* raises.  A queryset does not take a negative slice bound ("Negative
\* indexing is not supported."), a list does.
get_leaderboard(category, limit, pls, chars) ==
    IF category \notin Categories THEN {[raised |-> "", entries |-> <<>>]}
    ELSE IF category = "triumph_score" /\ limit < 0
    THEN {[raised |-> "ValueError", entries |-> <<>>]}
    ELSE UNION {{[raised |-> "",
                  entries |-> Ranked(order, values,
                                     SliceLength(Cardinality(DOMAIN values), limit))] :
                   order \in Descending(values)} :
                values \in ListedValues(category, pls, chars)}

\* The categories and limits asked for: the three categories and one that
\* does not exist; the default limit and the one of the rank query, limits
\* below, at and above the number of players, none, and a negative one.
AskedCategories == Categories \cup {"crucible"}
AskedLimits == {-1, 0, 1, MaxPlayers, 10, 9999}

\* A leaderboard that first makes sure of a snapshot row, as the readers
\* of the snapshot do.
GetLeaderboardEnsuringSnapshot ==
    /\ \E category \in AskedCategories, limit \in AskedLimits :
          \E returned \in get_leaderboard(category, limit, players, characters) :
             result' = [op |-> "leaderboard", category |-> category,
                        limit |-> limit, raised |-> returned.raised,
                        entries |-> returned.entries]
    /\ cache' = IF IsNull(cache)
                THEN Some(WrittenRow(Null,
                                     Defaults(ReadLight(characters), ReadTriumph(players),
                                              ReadClass(characters), ReadPlaytime(characters),
                                              players, characters),
                                     now))
                ELSE cache
    /\ UNCHANGED <<players, characters, now, ticks, syncs,
                   SCIPY_AVAILABLE, req, calc>>

\* get_leaderboard(category, limit) as a query of the record store.
GetLeaderboard ==
    /\ \E category \in AskedCategories, limit \in AskedLimits :
          \E returned \in get_leaderboard(category, limit, players, characters) :
             result' = [op |-> "leaderboard", category |-> category,
                        limit |-> limit, raised |-> returned.raised,
                        entries |-> returned.entries]
    /\ UNCHANGED <<players, characters, cache, now, ticks, syncs,
                   SCIPY_AVAILABLE, req, calc>>

\* A record store for the leaderboards: the characters of the populated
\* store, the one without power level having played for two minutes.
BoardProfiles ==
    {[class_type |-> 0, light_level |-> 100, minutes |-> 6000],
     [class_type |-> 0, light_level |-> 95, minutes |-> 0],
     [class_type |-> 1, light_level |-> 10, minutes |-> 6030],
     [class_type |-> 2, light_level |-> 0, minutes |-> 2]}

RECURSIVE BoardTables(_)
BoardTables(n) ==
    IF n = 0 THEN {<<>>}
    ELSE LET shorter == BoardTables(n - 1)
         IN  shorter \cup
             {Append(t, CharacterRow(p, Len(t) + 1, c.class_type,
                                     c.light_level, c.minutes)) :
                t \in {x \in shorter : Len(x) = n - 1},
                p \in PlayerIds, c \in BoardProfiles}

InitBoard ==
    /\ players \in [PlayerIds -> {PlayerRow(score) : score \in StoreScores}]
    /\ characters \in BoardTables(MaxChars)
    /\ Quiet
    /\ SCIPY_AVAILABLE
    /\ calc = NoCalc

\* The first leaderboard query of a populated store.
NextBoard == result = NoResult /\ GetLeaderboard

SpecBoard == InitBoard /\ [][NextBoard]_vars

\* The players a category lists, read off the record store.
ListedPlayers(category) ==
    CASE category = "light_level" -> PlayersWithLight
      [] category = "triumph_score" -> TriumphRecords
      [] category = "play_time" -> PlaytimeRecords

Min(a, b) == IF a < b THEN a ELSE b

\* C20 (as claimed): for each of the three categories and every limit,
\* get_leaderboard returns entries ranked 1, 2, ..., k in order, with
\* k <= limit and k = min(limit, number of listed players); for an unknown
\* category it returns the empty list.
C20_RanksAreOneToK ==
    result.op = "leaderboard" =>
        /\ result.raised = ""
        /\ \A i \in 1..Len(result.entries) : result.entries[i].rank = i
        /\ IF result.category \in Categories
           THEN /\ Len(result.entries) <= result.limit
                /\ Len(result.entries)
                      = Min(result.limit, Cardinality(ListedPlayers(result.category)))
           ELSE result.entries = <<>>

\* The values of a leaderboard fall or stay from each rank to the next.
NonIncreasing(entries) ==
    \A i, j \in 1..Len(entries) :
        i < j => RatLe(entries[j].value, entries[i].value)

\* C21 (as claimed): in every leaderboard returned the values are
\* non-increasing in rank order and every reported value is strictly
\* greater than 0; players whose power level, play time or triumph score
\* is not above 0 never appear.
C21_DescendingAndPositive ==
    result.op = "leaderboard" /\ result.raised = "" =>
        /\ NonIncreasing(result.entries)
        /\ \A i \in 1..Len(result.entries) :
              /\ RatLt(Zero, result.entries[i].value)
              /\ result.entries[i].player_id \in ListedPlayers(result.category)

\* C21 (amended): in every leaderboard returned the values are
\* non-increasing in rank order and every entry is of a player whose power
\* level, total of minutes played or triumph score is above 0; the reported
\* power level and triumph score are above 0, and the reported play time,
\* the hours rounded to one decimal, is 0.0 or more.
C21_DescendingAndListed ==
    result.op = "leaderboard" /\ result.raised = "" =>
        /\ NonIncreasing(result.entries)
        /\ \A i \in 1..Len(result.entries) :
              /\ result.entries[i].player_id \in ListedPlayers(result.category)
              /\ RatLe(Zero, result.entries[i].value)
              /\ result.category # "play_time" => RatLt(Zero, result.entries[i].value)

\* A play-time leaderboard of two players, the second with two minutes
\* played and a reported value of 0.0.
C21_Witness ==
    /\ result.op = "leaderboard"
    /\ result.category = "play_time"
    /\ Len(result.entries) = 2
    /\ RatLt(result.entries[2].value, result.entries[1].value)
    /\ result.entries[2].value = Zero
    /\ TotalMinutes[result.entries[2].player_id] = 2

\* ------------------------------------------- get_user_rank_in_leaderboard
\* limit=9999 of the full leaderboard.
FULL_LEADERBOARD_LIMIT == 9999

\* entry['membership_id'] == player.membership_id
EntriesOfPlayer(entries, p) ==
    {i \in 1..Len(entries) :
        entries[i].membership_id = MembershipOf[p].membership_id}

\* The loop returning the first entry, whose ever it is.
ScanForFirstEntry(entries, p) ==
    IF entries = <<>> THEN Null
    ELSE Some([rank |-> entries[1].rank, total |-> Len(entries),
               value |-> entries[1].value])

\* The loop over the full leaderboard: the first entry that matches, or
\* None.
ScanFor(entries, p) ==
    LET matching == EntriesOfPlayer(entries, p)
    IN  IF matching = {} THEN Null
        ELSE LET first == CHOOSE i \in matching : \A j \in matching : i <= j
             IN  Some([rank |-> entries[first].rank,
                       total |-> Len(entries),
                       value |-> entries[first].value])

\* services.get_user_rank_in_leaderboard: what it can return, or the
\* exception it raises.
get_user_rank_in_leaderboard(user, category, pls, chars) ==
    LET found == FindPlayer(pls, user)
    IN  IF found = {} THEN {[raised |-> "", user_rank |-> Null]}
        ELSE UNION {{IF full_leaderboard.raised # ""
                     THEN [raised |-> full_leaderboard.raised, user_rank |-> Null]
                     ELSE [raised |-> "",
                           user_rank |-> ScanFor(full_leaderboard.entries, p)] :
                        full_leaderboard \in
                           get_leaderboard(category, FULL_LEADERBOARD_LIMIT, pls, chars)} :
                    p \in found}

\* The logged-in users of the rank query: one for every membership, and
\* one on a third platform for every membership id.
RankUsers ==
    UNION {{[bungie_membership_id |-> MembershipOf[p].membership_id,
             bungie_membership_type |-> t] :
               t \in {MembershipOf[p].membership_type, 3}} : p \in MemberIds}

\* get_user_rank_in_leaderboard(user, category) as a query of the record
\* store.
GetUserRank ==
    /\ \E user \in RankUsers, category \in AskedCategories :
          \E returned \in get_user_rank_in_leaderboard(user, category,
                                                       players, characters) :
             result' = [op |-> "user_rank", user |-> user, category |-> category,
                        raised |-> returned.raised, user_rank |-> returned.user_rank]
    /\ UNCHANGED <<players, characters, cache, now, ticks, syncs,
                   SCIPY_AVAILABLE, req, calc>>

\* A record store for the rank: one player more than the populated store,
\* so that two players share a membership id and one has an id of its
\* own, and up to MaxPlayers characters owned by any of them.
RECURSIVE RankTables(_)
RankTables(n) ==
    IF n = 0 THEN {<<>>}
    ELSE LET shorter == RankTables(n - 1)
         IN  shorter \cup
             {Append(t, CharacterRow(p, Len(t) + 1, c.class_type,
                                     c.light_level, c.minutes)) :
                t \in {x \in shorter : Len(x) = n - 1},
                p \in MemberIds, c \in BoardProfiles}

InitRank ==
    /\ players \in [MemberIds -> {PlayerRow(score) : score \in StoreScores}]
    /\ characters \in RankTables(MaxPlayers)
    /\ Quiet
    /\ SCIPY_AVAILABLE
    /\ calc = NoCalc

\* The first rank query of a populated store.
NextRank == result = NoResult /\ GetUserRank

SpecRank == InitRank /\ [][NextRank]_vars

\* The listed players of a category that have the membership id of a
\* user.
ListedWithIdOf(user, category) ==
    IF category \notin Categories THEN {}
    ELSE {q \in ListedPlayers(category) :
            MembershipOf[q].membership_id = user.bungie_membership_id}

IsRankResult(user_rank) ==
    /\ user_rank # Null
    /\ DOMAIN Val(user_rank) = {"rank", "total", "value"}

\* C23 (as claimed): get_user_rank_in_leaderboard returns null if and only
\* if the user has no Player record; for every user with a record and
\* every valid category it returns a {rank, total, value} result.
C23_NullOnlyWithoutRecord ==
    result.op = "user_rank" /\ result.category \in Categories =>
        /\ result.raised = ""
        /\ result.user_rank = Null <=> RecordsOf(result.user) = {}
        /\ result.user_rank # Null => IsRankResult(result.user_rank)

\* C23 (amended): get_user_rank_in_leaderboard raises nothing and returns
\* null if and only if the user has no Player record or no player listed
\* in the category has the membership id of that record, as when the
\* user's own metric is not above 0 or the category is unknown; otherwise
\* it returns a {rank, total, value} result.
C23_NullWithoutRecordOrEntry ==
    result.op = "user_rank" =>
        /\ result.raised = ""
        /\ result.user_rank = Null <=>
              \/ RecordsOf(result.user) = {}
              \/ ListedWithIdOf(result.user, result.category) = {}
        /\ result.user_rank # Null => IsRankResult(result.user_rank)

\* A user with a Player record and no triumph score who gets null from a
\* triumph leaderboard that lists a player of another membership id.
C23_Witness ==
    /\ result.op = "user_rank"
    /\ result.category = "triumph_score"
    /\ RecordsOf(result.user) # {}
    /\ TriumphRecords # {}
    /\ result.user_rank = Null

\* The values a listed player can be reported with in a category.
ReportedValues(category, p) ==
    CASE category = "light_level" -> {IntRat(MaxLight[p])}
      [] category = "triumph_score" -> {IntRat(players[p].active_triumph_score)}
      [] category = "play_time" ->
            RoundOutcomes(Norm(<<TotalMinutes[p], MINUTES_PER_HOUR>>), 10)

\* The rank, total and value of a listed player in the full ordering: the
\* player's value, as many entries as listed players, and before the
\* player everybody of higher value and nobody of lower.
IsOwnRank(user_rank, category, p) ==
    LET listed == ListedPlayers(category)
        ahead == {q \in listed \ {p} :
                    \A v \in ReportedValues(category, q) : RatLt(user_rank.value, v)}
        not_behind == {q \in listed \ {p} :
                         \E v \in ReportedValues(category, q) : RatLe(user_rank.value, v)}
    IN  /\ user_rank.value \in ReportedValues(category, p)
        /\ user_rank.total = Cardinality(listed)
        /\ user_rank.rank - 1 >= Cardinality(ahead)
        /\ user_rank.rank - 1 <= Cardinality(not_behind)

\* C24 (as claimed): get_user_rank_in_leaderboard ranks the user within
\* the full ordering of all listed players: rank and value are those of
\* the user's own Player record, found by membership id and type
\* together, rank is 1 plus the number of entries before that player, and
\* total is the number of listed players of the category.
C24_RankIsOfOwnRecord ==
    result.op = "user_rank" /\ result.category \in Categories =>
        \A p \in RecordsOf(result.user) :
            IF p \in ListedPlayers(result.category)
            THEN /\ result.user_rank # Null
                 /\ IsOwnRank(Val(result.user_rank), result.category, p)
            ELSE result.user_rank = Null

\* ------------------------------------------------- LeaderboardAPIView.get
DEFAULT_LIMIT == 10
MAX_LIMIT == 100

\* A query parameter: absent, or its text, carried as the integer it
\* writes or as text that writes none.
Absent == [kind |-> "absent"]
Text == [kind |-> "text"]
Number(n) == [kind |-> "number", value |-> n]

\* int(request.GET.get('limit', 10)): the integer, or ValueError.
ParsedLimit(param) ==
    CASE param.kind = "absent" -> [raised |-> "", value |-> DEFAULT_LIMIT]
      [] param.kind = "number" -> [raised |-> "", value |-> param.value]
      [] param.kind = "text" -> [raised |-> "ValueError", value |-> 0]

\* try: limit = min(int(...), 100) except ValueError: limit = 10
LimitOf(param) ==
    LET parsed == ParsedLimit(param)
    IN  IF parsed.raised = "ValueError" THEN DEFAULT_LIMIT
        ELSE IF parsed.value < MAX_LIMIT THEN parsed.value ELSE MAX_LIMIT

\* request.GET.get('category', 'light_level')
CategoryOf(param) == IF param = "" THEN "light_level" ELSE param

\* The responses of LeaderboardAPIView.get to a request, or the exception
\* that leaves it.
LeaderboardResponses(category_param, limit_param, user, pls, chars) ==
    LET category == CategoryOf(category_param)
        limit == LimitOf(limit_param)
    IN  IF category \notin Categories
        THEN {[raised |-> "", status |-> 400, limit |-> limit, computed |-> FALSE,
               leaderboard |-> <<>>, user_rank |-> Null]}
        ELSE UNION {
               IF board.raised # ""
               THEN {[raised |-> board.raised, status |-> 500, limit |-> limit,
                      computed |-> TRUE, leaderboard |-> <<>>, user_rank |-> Null]}
               ELSE IF user = Null
               THEN {[raised |-> "", status |-> 200, limit |-> limit,
                      computed |-> TRUE, leaderboard |-> board.entries,
                      user_rank |-> Null]}
               ELSE {[raised |-> ranked.raised,
                      status |-> IF ranked.raised = "" THEN 200 ELSE 500,
                      limit |-> limit, computed |-> TRUE,
                      leaderboard |-> board.entries,
                      user_rank |-> ranked.user_rank] :
                       ranked \in get_user_rank_in_leaderboard(Val(user), category,
                                                               pls, chars)} :
               board \in get_leaderboard(category, limit, pls, chars)}

\* The requests: every category, none and an unknown one; no limit, one
\* that is no number, and numbers below 0, at 0, within the list, above
\* the cap; anonymous or logged in.
CategoryParams == Categories \cup {"", "crucible"}
LimitParams == {Absent, Text, Number(-1), Number(0), Number(1), Number(MAX_LIMIT + 1)}
Visitors == {Null} \cup {Some(user) : user \in Users}

\* GET of the leaderboard endpoint.
LeaderboardView ==
    /\ \E category_param \in CategoryParams, limit_param \in LimitParams,
          user \in Visitors :
          \E response \in LeaderboardResponses(category_param, limit_param, user,
                                               players, characters) :
             result' = [op |-> "leaderboard_view", category_param |-> category_param,
                        limit_param |-> limit_param, user |-> user] @@ response
    /\ UNCHANGED <<players, characters, cache, now, ticks, syncs,
                   SCIPY_AVAILABLE, req, calc>>

\* The first request of the endpoint over a populated store.
NextView == result = NoResult /\ LeaderboardView

SpecView == InitBoard /\ [][NextView]_vars

\* C22 (as claimed): the leaderboard endpoint caps the limit at 100: for
\* every limit asked for, absent, not a number, zero, negative or above
\* 100, and every valid category the response has at most 100 entries and
\* the request does not end in an unhandled error; an invalid category
\* gives an error response and no leaderboard is computed.
C22_LimitCappedAndNoError ==
    result.op = "leaderboard_view" =>
        IF CategoryOf(result.category_param) \in Categories
        THEN /\ result.raised = ""
             /\ result.status = 200
             /\ result.limit <= MAX_LIMIT
             /\ Len(result.leaderboard) <= MAX_LIMIT
        ELSE /\ result.raised = ""
             /\ result.status = 400
             /\ ~result.computed

\* ------------------------------------------------------------- badges
\* services._BASE_BADGES: the keys of the badge definitions BADGES[...]
\* looks up.
BadgeKeys ==
    {"brightest", "veteran", "rising_star", "collector", "dedicated",
     "trinity", "balanced"}

\* player.characters.all(): the rows of the player's characters.
CharactersOfPlayer(chars, p) == SelectSeq(chars, LAMBDA c : c.player = p)

\* The z-score and percentile of a value against a mean and a deviation
\* of the snapshot row, as calculate_badges and get_radar_chart_data
\* chain them.
PercentileAgainst(value, mean, stddev) ==
    calculate_percentile_from_zscore(calculate_z_score(value, Some(mean), Some(stddev)))

LightPercentile(row, chars, p) ==
    PercentileAgainst(IntRat(UserMaxLight(chars, p)),
                      row.stats.avg_light_level, row.stats.stddev_light_level)

TriumphPercentile(row, pls, p) ==
    PercentileAgainst(IntRat(pls[p].active_triumph_score),
                      row.stats.avg_triumph_score, row.stats.stddev_triumph_score)

PlaytimePercentile(row, chars, p) ==
    PercentileAgainst(UserPlaytimeHours(chars, p),
                      row.stats.avg_play_time_hours, row.stats.stddev_play_time_hours)

\* The three tier tests of the light percentile as independent ifs.
RankBadgeOfEveryTier(light_percentile) ==
    (IF RatLe(IntRat(90), light_percentile) THEN <<"brightest">> ELSE <<>>)
    \o (IF RatLe(IntRat(75), light_percentile) THEN <<"veteran">> ELSE <<>>)
    \o (IF RatLe(IntRat(50), light_percentile) THEN <<"rising_star">> ELSE <<>>)

\* The if / elif / elif chain over the light percentile.
RankBadge(light_percentile) ==
    IF RatLe(IntRat(90), light_percentile) THEN <<"brightest">>
    ELSE IF RatLe(IntRat(75), light_percentile) THEN <<"veteran">>
    ELSE IF RatLe(IntRat(50), light_percentile) THEN <<"rising_star">>
    ELSE <<>>

TopTenBadge(percentile, key) ==
    IF RatLe(IntRat(90), percentile) THEN <<key>> ELSE <<>>

\* set(c.class_type for c in characters)
class_types(own) == {own[i].class_type : i \in 1..Len(own)}

CLASS_COUNT == 3

\* Trinity for a player with three characters, of whatever class.
TrinityBadgeByCount(own) ==
    IF Len(own) = CLASS_COUNT THEN <<"trinity">> ELSE <<>>

TrinityBadge(own) ==
    IF Cardinality(class_types(own)) = CLASS_COUNT THEN <<"trinity">> ELSE <<>>

BALANCED_SPREAD == 50

\* The light levels of every character, the level-0 ones too.
AllLightLevels(own) == LightLevelsOf(own)

\* [c.light_level for c in characters if c.light_level > 0]
PositiveLightLevels(own) == LightLevelsOf(SelectSeq(own, HasLight))

BalancedBadge(own) ==
    LET light_levels == PositiveLightLevels(own)
    IN  IF /\ Len(light_levels) >= 2
           /\ RatLe(RatSub(MaxOf(light_levels), MinOf(light_levels)),
                    IntRat(BALANCED_SPREAD))
        THEN <<"balanced">> ELSE <<>>

\* services.calculate_badges(player) once the snapshot row is in hand:
\* the keys of the badges in the order they are appended.
calculate_badges(row, pls, chars, p) ==
    LET own == CharactersOfPlayer(chars, p)
    IN  IF own = <<>> THEN <<>>
        ELSE RankBadge(LightPercentile(row, chars, p))
             \o TopTenBadge(TriumphPercentile(row, pls, p), "collector")
             \o TopTenBadge(PlaytimePercentile(row, chars, p), "dedicated")
             \o TrinityBadge(own)
             \o BalancedBadge(own)

\* calculate_badges(player) for the record of an existing player, from the
\* row in hand to the return.
AnswerBadges(w, p) ==
    /\ req[w].pc = "respond"
    /\ req[w].kind = "badges"
    /\ players[p].exists
    /\ result' = [op |-> "badges", player |-> p, raised |-> "",
                  badges |-> calculate_badges(Val(req[w].cache), players, characters, p)]
    /\ req' = [req EXCEPT ![w] = IdleRequest]
    /\ UNCHANGED <<players, characters, cache, now, ticks, syncs,
                   SCIPY_AVAILABLE, calc>>

\* The store the badges are computed over: characters whose power levels
\* lie exactly BALANCED_SPREAD and one more apart, one of each class, and
\* one that has not reached any power level.
BadgeProfiles ==
    {[class_type |-> 0, light_level |-> 101, minutes |-> 6000],
     [class_type |-> 1, light_level |-> 51, minutes |-> 0],
     [class_type |-> 2, light_level |-> 50, minutes |-> 6030],
     [class_type |-> 0, light_level |-> 0, minutes |-> 60]}

RECURSIVE BadgeTables(_)
BadgeTables(n) ==
    IF n = 0 THEN {<<>>}
    ELSE LET shorter == BadgeTables(n - 1)
         IN  shorter \cup
             {Append(t, CharacterRow(p, Len(t) + 1, c.class_type,
                                     c.light_level, c.minutes)) :
                t \in {x \in shorter : Len(x) = n - 1},
                p \in PlayerIds, c \in BadgeProfiles}

\* The store as it was when an earlier refresh wrote the snapshot row, and
\* the row that refresh left.
EarlierPlayers == [p \in PlayerIds |-> PlayerRow(4000 + 1000 * p)]

EarlierCharacters ==
    <<CharacterRow(1, 1, 0, 2, 60), CharacterRow(2, 1, 1, 102, 120)>>

EarlierRow ==
    WrittenRow(Null,
               Defaults(ReadLight(EarlierCharacters), ReadTriumph(EarlierPlayers),
                        ReadClass(EarlierCharacters), ReadPlaytime(EarlierCharacters),
                        EarlierPlayers, EarlierCharacters),
               0)

\* A populated store with no snapshot row yet, or with the row of an
\* earlier refresh.
InitBadges ==
    /\ players \in [PlayerIds -> {PlayerRow(score) : score \in StoreScores}]
    /\ characters \in BadgeTables(MaxChars)
    /\ SCIPY_AVAILABLE = TRUE
    /\ cache \in {Null, Some(EarlierRow)}
    /\ result = NoResult
    /\ now = 0
    /\ ticks = 0
    /\ syncs = 0
    /\ req = [w \in Workers |-> IdleRequest]
    /\ calc = NoCalc

\* The first badge computation, for any player.
NextBadges ==
    \/ result = NoResult /\ StartRequest(1, "badges")
    \/ GetCache(1)
    \/ Refreshing(1)
    \/ \E p \in PlayerIds : AnswerBadges(1, p)

SpecBadges == InitBadges /\ [][NextBadges]_vars

HasBadge(key) == \E i \in 1..Len(result.badges) : result.badges[i] = key

BadgesOfPlayerWithCharacters ==
    /\ result.op = "badges"
    /\ CharactersOfPlayer(characters, result.player) # <<>>

\* C25: for a player with characters, Brightest is granted exactly when
\* the light percentile against the snapshot row is at least 90, Veteran
\* exactly when it is at least 75 and below 90, Rising Star exactly when it
\* is at least 50 and below 75, and none of the three below 50; Collector
\* exactly when the triumph percentile is at least 90, Dedicated exactly
\* when the play-time percentile is at least 90; and no badge is listed
\* twice.
C25_TierBadgesExclusive ==
    BadgesOfPlayerWithCharacters =>
        LET p == result.player
            light == LightPercentile(Val(cache), characters, p)
            triumph == TriumphPercentile(Val(cache), players, p)
            playtime == PlaytimePercentile(Val(cache), characters, p)
            AtLeast(percentile, bound) == RatLe(IntRat(bound), percentile)
        IN  /\ HasBadge("brightest") <=> AtLeast(light, 90)
            /\ HasBadge("veteran") <=> (AtLeast(light, 75) /\ ~AtLeast(light, 90))
            /\ HasBadge("rising_star") <=> (AtLeast(light, 50) /\ ~AtLeast(light, 75))
            /\ HasBadge("collector") <=> AtLeast(triumph, 90)
            /\ HasBadge("dedicated") <=> AtLeast(playtime, 90)
            /\ \A i, j \in 1..Len(result.badges) :
                  result.badges[i] = result.badges[j] => i = j
            /\ \A i \in 1..Len(result.badges) : result.badges[i] \in BadgeKeys

C25_Witness ==
    /\ BadgesOfPlayerWithCharacters
    /\ HasBadge("veteran")
    /\ HasBadge("collector")
    /\ HasBadge("dedicated")

\* The characters of the player the badges were computed for, as indices
\* of the character table.
OwnedBy(p) == {i \in 1..Len(characters) : characters[i].player = p}

\* C26: Trinity is granted exactly when the class types of the player's
\* characters have three distinct members, whatever the snapshot row holds
\* and whichever percentile badges are granted.
C26_TrinityIffThreeClasses ==
    result.op = "badges" =>
        (HasBadge("trinity")
            <=> Cardinality({characters[i].class_type : i \in OwnedBy(result.player)}) = 3)

C26_Witness ==
    /\ result.op = "badges"
    /\ HasBadge("trinity")
    /\ ~HasBadge("brightest") /\ ~HasBadge("veteran") /\ ~HasBadge("rising_star")

\* The player's characters with a power level above 0.
ValidOwnedBy(p) == {i \in OwnedBy(p) : characters[i].light_level > 0}

Clamp(percentile) ==
    IF RatLt(percentile, Zero) THEN Zero
    ELSE IF RatLt(IntRat(100), percentile) THEN IntRat(100)
    ELSE percentile

\* (count / 3) * 100 without the cap.
ShareOfThreeUncapped(count) == Norm(<<count * 100, CLASS_COUNT>>)

\* min(100, (count / 3) * 100)
ShareOfThree(count) ==
    LET score == Norm(<<count * 100, CLASS_COUNT>>)
    IN  IF RatLt(IntRat(100), score) THEN IntRat(100) ELSE score

RADAR_AXES == 5

\* services.get_radar_chart_data(player) once the snapshot row is in
\* hand: the lists 'values' it can return, each value rounded to one
\* decimal.
get_radar_chart_data(row, pls, chars, p) ==
    LET own == CharactersOfPlayer(chars, p)
    IN  IF own = <<>> THEN {[i \in 1..RADAR_AXES |-> Zero]}
        ELSE LET light_percentile == Clamp(LightPercentile(row, chars, p))
                 triumph_percentile == Clamp(TriumphPercentile(row, pls, p))
                 playtime_percentile == Clamp(PlaytimePercentile(row, chars, p))
                 char_score == ShareOfThree(Len(own))
                 versatility_score == ShareOfThree(Cardinality(class_types(own)))
             IN  {<<light, triumph, playtime, chars_value, versatility>> :
                    light \in RoundOutcomes(light_percentile, 10),
                    triumph \in RoundOutcomes(triumph_percentile, 10),
                    playtime \in RoundOutcomes(playtime_percentile, 10),
                    chars_value \in RoundOutcomes(char_score, 10),
                    versatility \in RoundOutcomes(versatility_score, 10)}

\* get_radar_chart_data(player) for the record of an existing player, from
\* the row in hand to the return.
AnswerRadar(w, p) ==
    /\ req[w].pc = "respond"
    /\ req[w].kind = "radar"
    /\ players[p].exists
    /\ \E values \in get_radar_chart_data(Val(req[w].cache), players, characters, p) :
          result' = [op |-> "radar", player |-> p, raised |-> "", values |-> values]
    /\ req' = [req EXCEPT ![w] = IdleRequest]
    /\ UNCHANGED <<players, characters, cache, now, ticks, syncs,
                   SCIPY_AVAILABLE, calc>>

\* The store the radar chart is drawn over: one character kind of each
\* class, and room for one character more than the three classes.
RadarProfiles ==
    {[class_type |-> 0, light_level |-> 101, minutes |-> 6000],
     [class_type |-> 1, light_level |-> 51, minutes |-> 0],
     [class_type |-> 2, light_level |-> 0, minutes |-> 60]}

RECURSIVE RadarTables(_)
RadarTables(n) ==
    IF n = 0 THEN {<<>>}
    ELSE LET shorter == RadarTables(n - 1)
         IN  shorter \cup
             {Append(t, CharacterRow(p, Len(t) + 1, c.class_type,
                                     c.light_level, c.minutes)) :
                t \in {x \in shorter : Len(x) = n - 1},
                p \in PlayerIds, c \in RadarProfiles}

\* A player without a triumph score or with a high one.
RadarScores == {0, 12000}

InitRadar ==
    /\ players \in [PlayerIds -> {PlayerRow(score) : score \in RadarScores}]
    /\ characters \in RadarTables(MaxChars + 1)
    /\ SCIPY_AVAILABLE = TRUE
    /\ cache \in {Null, Some(EarlierRow)}
    /\ result = NoResult
    /\ now = 0
    /\ ticks = 0
    /\ syncs = 0
    /\ req = [w \in Workers |-> IdleRequest]
    /\ calc = NoCalc

\* The first radar chart or badge list, of any player.
NextRadar ==
    \/ result = NoResult /\ \E kind \in {"badges", "radar"} : StartRequest(1, kind)
    \/ GetCache(1)
    \/ Refreshing(1)
    \/ \E p \in PlayerIds : AnswerBadges(1, p)
    \/ \E p \in PlayerIds : AnswerRadar(1, p)

SpecRadar == InitRadar /\ [][NextRadar]_vars

InPercentRange(value) == RatLe(Zero, value) /\ RatLe(value, IntRat(100))

\* C28: the radar chart has exactly five values, each within [0, 100]:
\* the three percentiles against the snapshot row clamped to [0, 100], the
\* character-count score min(100, count/3*100) and the class-diversity
\* score min(100, distinct_classes/3*100), each to one decimal; for a
\* player without characters the values are all zero and the badge list is
\* empty; no request raises, whether the snapshot row was missing or not.
C28_RadarFiveValuesInRange ==
    LET p == result.player
        owned == OwnedBy(p)
        classes == {characters[i].class_type : i \in owned}
        Score(count) == IF count >= 3 THEN IntRat(100) ELSE Norm(<<count * 100, 3>>)
    IN  /\ result.op \in {"radar", "badges"} => result.raised = ""
        /\ result.op = "badges" /\ owned = {} => result.badges = <<>>
        /\ result.op = "radar" =>
              /\ Len(result.values) = 5
              /\ \A i \in 1..Len(result.values) : InPercentRange(result.values[i])
              /\ IF owned = {}
                 THEN \A i \in 1..Len(result.values) : result.values[i] = Zero
                 ELSE /\ result.values[1] = LightPercentile(Val(cache), characters, p)
                      /\ result.values[2] = TriumphPercentile(Val(cache), players, p)
                      /\ result.values[3] = PlaytimePercentile(Val(cache), characters, p)
                      /\ result.values[4] \in RoundOutcomes(Score(Cardinality(owned)), 10)
                      /\ result.values[5] \in RoundOutcomes(Score(Cardinality(classes)), 10)

C28_Witness ==
    /\ result.op = "radar"
    /\ Cardinality(OwnedBy(result.player)) > 3
    /\ result.values[4] = IntRat(100)
    /\ result.values[5] = Norm(<<667, 10>>)

\* ------------------------------------------ queries of the raw records
\* The leaderboard, the rank and the hypothesis tests, asked at any moment
\* of a run in which the snapshot row is missing, fresh or stale and a
\* request of the descriptive endpoint may be refreshing it.
FrameScores == {0, 5000}

InitFrame ==
    /\ players \in [PlayerIds -> {PlayerRow(score) : score \in FrameScores}]
    /\ characters \in BoardTables(1)
    /\ SCIPY_AVAILABLE = TRUE
    /\ cache \in {Null, Some(EarlierRow)}
    /\ result = NoResult
    /\ now = 0
    /\ ticks = 0
    /\ syncs = 0
    /\ req = [w \in Workers |-> IdleRequest]
    /\ calc = NoCalc

RecordQueries ==
    \/ GetLeaderboard
    \/ GetUserRank
    \/ ClassAnova
    \/ Correlation
    \/ AllHypothesisTests

NextFrame ==
    \/ StartRequest(1, "descriptive")
    \/ GetCache(1)
    \/ Refreshing(1)
    \/ Respond(1)
    \/ \E d \in TickSteps : Tick(d)
    \/ result = NoResult /\ RecordQueries

SpecFrame == InitFrame /\ [][NextFrame]_vars

RecordQueryOps == {"leaderboard", "user_rank", "anova", "correlation", "all_tests"}

\* C29: a step in which the leaderboard, the rank or a hypothesis test
\* answers leaves the snapshot row as it is, whether missing, fresh or
\* stale, starts or advances no refresh, and changes no player or character
\* record.
C29_QueriesChangeNothing ==
    [][result' # result =>
          /\ result'.op \in RecordQueryOps
          /\ cache' = cache
          /\ req' = req
          /\ players' = players
          /\ characters' = characters]_vars

C29_Witness ==
    /\ result.op = "user_rank"
    /\ ~IsNull(cache)
    /\ IsStale(Val(cache), now)
    /\ req[1].pc = "idle"

\* The characters the class-wise statistics of a row count, all classes
\* together.
ClassStatisticsTotal(stats) ==
    SetSum([ct \in ClassTypes |-> stats.class_statistics[class_names[ct]].count],
           ClassTypes)

\* C30: once every refresh has finished, the snapshot row describes one
\* state of the record store, even with syncs committing while refreshes
\* run: the three class counts add up to total_characters, and the
\* characters counted by the class-wise statistics are as many as the
\* power-level histogram counts.
C30_SnapshotOfOneState ==
    AllIdle /\ cache # Null =>
        LET stats == Val(cache).stats
        IN  /\ stats.titan_count + stats.hunter_count + stats.warlock_count
                  = stats.total_characters
            /\ ClassStatisticsTotal(stats) = CountSum(stats.light_level_distribution)

=============================================================================
